---- MODULE Spec2Model ----
(***************************************************************************)
(* Model of the Respondr document processor (src/lambda/lambda_function.py)*)
(* Texts are TLA+ strings; a character is a string of length 1.  The       *)
(* keyword tables, the regular expressions and the scoring rules are       *)
(* transcribed from the source and evaluated character by character.       *)
(***************************************************************************)
EXTENDS Integers, Sequences, FiniteSets, TLC

VARIABLES
    text,        \* extracted_text handed to parse_metadata / process_document
    page_count,  \* page count returned by the OCR job
    key,         \* S3 object key of the source document
    pc,          \* "input": arguments bound, "done": the function has returned
    metadata,    \* the fields computed so far (complete_metadata)
    run,         \* per Lambda invocation: the locals of lambda_handler and of
                 \* the process_document call it is in
    table,       \* the items of the DynamoDB table DYNAMODB_TABLE
    parsed,      \* the objects of the S3 bucket PARSED_BUCKET
    uuids,       \* how many identifiers uuid.uuid4() has handed out
    clock,       \* how many times datetime.utcnow() has been read
    dash         \* the dashboard: the read function running and its locals

textVars == <<text, page_count, key, pc, metadata>>
pipelineVars == <<run, table, parsed, uuids, clock, dash>>
vars == <<text, page_count, key, pc, metadata, run, table, parsed, uuids, clock, dash>>

(***************************************************************************)
(* Bounds of the model.                                                    *)
(***************************************************************************)
\* longest text, counted in fragments of a vocabulary
MaxFrags == 3
\* largest page count an OCR job reports
MaxPages == 2
\* most records in one S3 event
MaxRecords == 2

(***************************************************************************)
(* Python values.                                                          *)
(***************************************************************************)
\* Python's None, for Optional[str] results
None == "None"
\* a field of the record that no step has assigned yet
Unset == "<unset>"

Max(a, b) == IF a >= b THEN a ELSE b
Min(a, b) == IF a <= b THEN a ELSE b

(***************************************************************************)
(* Characters and character classes of Python's re module (ASCII range).   *)
(***************************************************************************)
UpperAlpha == "ABCDEFGHIJKLMNOPQRSTUVWXYZ"
LowerAlpha == "abcdefghijklmnopqrstuvwxyz"
Digits == "0123456789"

\* the i-th character of s
At(s, i) == SubSeq(s, i, i)
Chars(s) == {At(s, i) : i \in 1..Len(s)}

UpperSet == Chars(UpperAlpha)
LowerSet == Chars(LowerAlpha)
DigitSet == Chars(Digits)

IsUpper(c) == c \in UpperSet
IsLower(c) == c \in LowerSet
IsAlpha(c) == IsUpper(c) \/ IsLower(c)
\* \d
IsDigit(c) == c \in DigitSet
\* \s
IsSpace(c) == c \in {" ", "\n", "\t", "\r", "\f"}
\* \w
IsWord(c) == IsAlpha(c) \/ IsDigit(c) \/ c = "_"

\* str.lower() on the upper-case letters
LowerOf ==
    [c \in UpperSet |-> At(LowerAlpha, CHOOSE i \in 1..Len(UpperAlpha) : At(UpperAlpha, i) = c)]

\* str.lower() on one character
LowerChar(c) == IF c \in UpperSet THEN LowerOf[c] ELSE c

\* str.lower(): character by character (the text is split in halves to keep the
\* evaluation shallow)
RECURSIVE Lower(_)
Lower(s) ==
    IF Len(s) = 0 THEN ""
    ELSE IF Len(s) = 1 THEN LowerChar(s)
    ELSE Lower(SubSeq(s, 1, Len(s) \div 2)) \o Lower(SubSeq(s, Len(s) \div 2 + 1, Len(s)))

\* Python's `k in t` on strings
Contains(t, k) ==
    \E i \in 1..(Len(t) - Len(k) + 1) : SubSeq(t, i, i + Len(k) - 1) = k

\* all concatenations of at most n fragments of F
RECURSIVE Concats(_, _)
Concats(F, n) ==
    IF n = 0 THEN {""}
    ELSE LET P == Concats(F, n - 1) IN P \cup {p \o f : p \in P, f \in F}

(***************************************************************************)
(* Keyword taxonomies.  A dict is a sequence of <<category, phrases>>      *)
(* pairs in insertion order, which is the order a Python dict iterates.    *)
(***************************************************************************)
DOCTYPE_KEYWORDS == <<
    <<"emergency_plan", <<"emergency", "evacuation", "response plan", "continuity", "disaster">> >>,
    <<"sop", <<"standard operating procedure", "sop", "procedure", "protocol", "process">> >>,
    <<"policy", <<"policy", "policies", "regulation", "compliance", "guideline">> >>,
    <<"incident_report", <<"incident report", "incident", "accident report", "injury report">> >>,
    <<"training", <<"training", "course", "workshop", "certification", "instruction">> >> >>

ROLE_KEYWORDS == <<
    <<"security", <<"security", "guard", "officer", "protection">> >>,
    <<"ehs", <<"ehs", "environment", "health", "safety", "environmental health">> >>,
    <<"facilities", <<"facilities", "maintenance", "building", "grounds">> >>,
    <<"hr", <<"human resources", "hr", "personnel", "employee relations">> >>,
    <<"medical", <<"medical", "nurse", "physician", "healthcare", "first aid">> >> >>

HAZARD_KEYWORDS == <<
    <<"fire", <<"fire", "smoke", "flame", "burn", "combustion">> >>,
    <<"chemical", <<"chemical", "hazmat", "spill", "toxic", "corrosive">> >>,
    <<"active_shooter", <<"active shooter", "armed intruder", "gunman", "shooter">> >>,
    <<"flood", <<"flood", "water damage", "inundation", "flooding">> >>,
    <<"medical_emergency", <<"medical emergency", "cardiac", "stroke", "injury", "trauma">> >> >>

\* the categories of a keyword dict, as a set
Categories(keyword_dict) == {keyword_dict[i][1] : i \in 1..Len(keyword_dict)}

(***************************************************************************)
(* detect_doctype                                                          *)
(***************************************************************************)
\* sum(1 for keyword in keywords if keyword in text)
Score(t, keywords) ==
    Cardinality({j \in 1..Len(keywords) : Contains(t, keywords[j])})

\* the scores dict: entry i holds the score of the i-th category
Scores(t) == [i \in 1..Len(DOCTYPE_KEYWORDS) |-> Score(t, DOCTYPE_KEYWORDS[i][2])]

\* max(scores, key=scores.get): scan in dict order, a later key replaces the
\* running maximum only when its value is strictly greater
RECURSIVE MaxKeyFrom(_, _, _)
MaxKeyFrom(scores, i, best) ==
    IF i > Len(scores) THEN best
    ELSE MaxKeyFrom(scores, i + 1, IF scores[i] > scores[best] THEN i ELSE best)

\* the slip `>=` for `>` in the scan: the last maximal key wins
MaxKeyLast(scores) ==
    CHOOSE b \in 1..Len(scores) :
        /\ \A i \in 1..Len(scores) : scores[i] <= scores[b]
        /\ \A i \in (b + 1)..Len(scores) : scores[i] < scores[b]

MaxKey(scores) == MaxKeyFrom(scores, 2, 1)

\* the slip of dropping the `scores[max_doctype] > 0` test
detect_doctype_NoZeroTest(t) == DOCTYPE_KEYWORDS[MaxKey(Scores(t))][1]

detect_doctype(t) ==
    LET scores == Scores(t)
        max_doctype == MaxKey(scores)
    IN  IF scores[max_doctype] > 0 THEN DOCTYPE_KEYWORDS[max_doctype][1] ELSE "unknown"

(***************************************************************************)
(* The record before any field is computed.                                *)
(***************************************************************************)
EmptyMetadata ==
    [doctype |-> Unset, roles_involved |-> <<Unset>>, hazard_types |-> <<Unset>>,
     version |-> Unset, effective_date |-> Unset, author |-> Unset,
     facility |-> Unset, jurisdiction |-> Unset, pii_present |-> Unset,
     ocr_coverage_pct |-> -1, org_id |-> Unset, source_key |-> Unset,
     pages |-> -1, mime_type |-> Unset, classification |-> Unset,
     text_preview |-> Unset]

(***************************************************************************)
(* The pipeline at rest: no invocation, empty table and bucket.            *)
(***************************************************************************)
\* the Lambda invocations
Procs == {1, 2}

\* the locals of an invocation that has not started: those of lambda_handler
\* (event, idx, statusCode, error), those of the process_document call it is in,
\* and the calls it has issued so far as <<operation, target, outcome>>
IdleRun ==
    [pc |-> "idle", event |-> <<>>, idx |-> 0, statusCode |-> 0, error |-> "",
     key |-> "", attempt |-> 0, status |-> "", polls |-> 0, slept |-> 0,
     response |-> 0, text_blocks |-> <<>>, extracted_text |-> "", page_count |-> 0,
     file_size |-> 0, checksum |-> "", doc_id |-> "",
     complete_metadata |-> EmptyMetadata, calls |-> {}]

\* the dashboard with no read function running: the function and its
\* arguments, its locals, whether a call of it failed, and what it gave back
IdleDash ==
    [pc |-> "idle", fn |-> "", org_id |-> "", doctype |-> "", doc_id |-> "", filename |-> "",
     documents |-> <<>>, unread |-> {}, pages_read |-> 0, failed |-> FALSE,
     message |-> "", items |-> <<>>, text |-> ""]

PipelineIdle ==
    /\ run = [p \in Procs |-> IdleRun]
    /\ table = {}
    /\ parsed = {}
    /\ uuids = 0
    /\ clock = 0
    /\ dash = IdleDash

(***************************************************************************)
(* Document-type classification of a text (parse_metadata, lines 298-304). *)
(***************************************************************************)
DoctypeFragments ==
    {"SOP ", "policy ", "Emergency ", "incident report ", "training ",
     "response plan ", "the ", "process"}

InitDoctype ==
    /\ text \in Concats(DoctypeFragments, MaxFrags)
    /\ page_count = 0
    /\ key = "doc.pdf"
    /\ pc = "input"
    /\ metadata = EmptyMetadata
    /\ PipelineIdle

ClassifyDoctype ==
    /\ pc = "input"
    /\ LET text_lower == Lower(text)
       IN  metadata' = [metadata EXCEPT !.doctype = detect_doctype(text_lower)]
    /\ pc' = "done"
    /\ UNCHANGED <<text, page_count, key>>
    /\ UNCHANGED pipelineVars

NextDoctype == ClassifyDoctype

SpecDoctype == InitDoctype /\ [][NextDoctype]_vars

(***************************************************************************)
(* C1, C2: the document-type classifier.                                   *)
(***************************************************************************)
\* the trigger phrases of the i-th category that occur somewhere in t
MatchedPhrases(t, i) ==
    {k \in {DOCTYPE_KEYWORDS[i][2][j] : j \in 1..Len(DOCTYPE_KEYWORDS[i][2])} :
        \E a \in 1..Len(t) : \E b \in a..Len(t) : SubSeq(t, a, b) = k}

PhraseCount(t, i) == Cardinality(MatchedPhrases(t, i))

DoctypeIndexes == 1..Len(DOCTYPE_KEYWORDS)

\* C1: when some category scores at least 1, the classifier returns the category
\* with the highest number of matched phrases, and among categories sharing the
\* maximum the one earliest in the enumeration order.
C1_HighestScoreEarliestWins ==
    pc = "done" =>
        LET t == Lower(text) IN
        (\E i \in DoctypeIndexes : PhraseCount(t, i) >= 1) =>
            \E b \in DoctypeIndexes :
                /\ metadata.doctype = DOCTYPE_KEYWORDS[b][1]
                /\ \A i \in DoctypeIndexes : PhraseCount(t, i) <= PhraseCount(t, b)
                /\ \A i \in 1..(b - 1) : PhraseCount(t, i) < PhraseCount(t, b)

\* a classified text in which two categories tie at the maximum, the later one
\* being mentioned first in the text, and the earlier one is returned
C1_Witness ==
    /\ pc = "done"
    /\ text = "policy SOP "
    /\ PhraseCount(Lower(text), 2) = 1
    /\ PhraseCount(Lower(text), 3) = 1
    /\ metadata.doctype = "sop"

\* C2: the classifier returns one of the five categories or "unknown", and
\* "unknown" whenever no trigger phrase of any category occurs in the text.
C2_DoctypeTotalUnknownOnNoSignal ==
    pc = "done" =>
        /\ metadata.doctype \in Categories(DOCTYPE_KEYWORDS) \cup {"unknown"}
        /\ (\A i \in DoctypeIndexes : MatchedPhrases(Lower(text), i) = {})
              => metadata.doctype = "unknown"

\* a classified non-empty text without any trigger phrase
C2_Witness ==
    /\ pc = "done"
    /\ text = "the the "
    /\ \A i \in DoctypeIndexes : MatchedPhrases(Lower(text), i) = {}
    /\ metadata.doctype = "unknown"

(***************************************************************************)
(* detect_keywords                                                         *)
(***************************************************************************)
\* any(keyword in text for keyword in keywords)
AnyKeyword(t, keywords) == \E j \in 1..Len(keywords) : Contains(t, keywords[j])

\* the loop over keyword_dict.items() from entry i on, `found` being the list so far
RECURSIVE DetectFrom(_, _, _, _)
DetectFrom(t, keyword_dict, i, found) ==
    IF i > Len(keyword_dict) THEN found
    ELSE DetectFrom(t, keyword_dict, i + 1,
                    IF AnyKeyword(t, keyword_dict[i][2])
                    THEN Append(found, keyword_dict[i][1])
                    ELSE found)

\* the slip of appending the category once per matching keyword
RECURSIVE DetectPerKeywordFrom(_, _, _, _, _)
DetectPerKeywordFrom(t, keyword_dict, i, j, found) ==
    IF i > Len(keyword_dict) THEN found
    ELSE IF j > Len(keyword_dict[i][2])
         THEN DetectPerKeywordFrom(t, keyword_dict, i + 1, 1, found)
         ELSE DetectPerKeywordFrom(t, keyword_dict, i, j + 1,
                  IF Contains(t, keyword_dict[i][2][j])
                  THEN Append(found, keyword_dict[i][1])
                  ELSE found)

detect_keywords_PerKeyword(t, keyword_dict) ==
    DetectPerKeywordFrom(t, keyword_dict, 1, 1, <<>>)

\* the slip of returning at the first matching category
detect_keywords_FirstOnly(t, keyword_dict) ==
    LET found == DetectFrom(t, keyword_dict, 1, <<>>)
    IN  IF found = <<>> THEN found ELSE <<found[1]>>

detect_keywords(t, keyword_dict) == DetectFrom(t, keyword_dict, 1, <<>>)

(***************************************************************************)
(* Role and hazard detection on a text (parse_metadata, lines 298-310).    *)
(***************************************************************************)
KeywordFragments ==
    {"EHS ", "Health", "care ", "security ", "fire ", "shooter ", "the "}

InitKeywords ==
    /\ text \in Concats(KeywordFragments, MaxFrags)
    /\ page_count = 0
    /\ key = "doc.pdf"
    /\ pc = "input"
    /\ metadata = EmptyMetadata
    /\ PipelineIdle

DetectRolesHazards ==
    /\ pc = "input"
    /\ LET text_lower == Lower(text)
       IN  metadata' = [metadata EXCEPT
               !.roles_involved = detect_keywords(text_lower, ROLE_KEYWORDS),
               !.hazard_types = detect_keywords(text_lower, HAZARD_KEYWORDS)]
    /\ pc' = "done"
    /\ UNCHANGED <<text, page_count, key>>
    /\ UNCHANGED pipelineVars

NextKeywords == DetectRolesHazards

SpecKeywords == InitKeywords /\ [][NextKeywords]_vars

(***************************************************************************)
(* C3, C4: role and hazard detection.                                      *)
(***************************************************************************)
Range(seq) == {seq[i] : i \in 1..Len(seq)}

\* the categories of keyword_dict with at least one phrase occurring in t
Present(t, keyword_dict) ==
    {keyword_dict[i][1] : i \in
        {n \in 1..Len(keyword_dict) :
            \E k \in Range(keyword_dict[n][2]) :
                \E a \in 1..Len(t) : \E b \in a..Len(t) : SubSeq(t, a, b) = k}}

ExactlyThePresent(found, t, keyword_dict) ==
    /\ Range(found) = Present(t, keyword_dict)
    /\ \A i, j \in 1..Len(found) : found[i] = found[j] => i = j

\* C3: detect_keywords returns exactly the categories having at least one phrase
\* in the lower-cased text, each of them once.
C3_ExactlyMatchingCategories ==
    pc = "done" =>
        /\ ExactlyThePresent(metadata.roles_involved, Lower(text), ROLE_KEYWORDS)
        /\ ExactlyThePresent(metadata.hazard_types, Lower(text), HAZARD_KEYWORDS)

\* a text in which one role is triggered by two of its phrases and a second role
\* by a phrase that spans two fragments
C3_Witness ==
    /\ pc = "done"
    /\ text = "EHS Healthcare "
    /\ metadata.roles_involved = <<"ehs", "medical">>
    /\ metadata.hazard_types = <<>>

\* C4: every category detected on a text is still detected on the text with
\* further content appended.
C4_DetectionMonotonic ==
    pc = "done" =>
        \A more \in Concats(KeywordFragments, 1) :
            LET longer == Lower(text \o more) IN
            /\ Range(metadata.roles_involved)
                 \subseteq Range(detect_keywords(longer, ROLE_KEYWORDS))
            /\ Range(metadata.hazard_types)
                 \subseteq Range(detect_keywords(longer, HAZARD_KEYWORDS))

\* a text with a detected role and hazard to which an extension adds a role that
\* precedes the detected one in the table
C4_Witness ==
    /\ pc = "done"
    /\ text = "EHS fire "
    /\ metadata.roles_involved = <<"ehs">>
    /\ metadata.hazard_types = <<"fire">>
    /\ detect_keywords(Lower(text \o "security "), ROLE_KEYWORDS) = <<"security", "ehs">>

(***************************************************************************)
(* Regular expressions (Python's re).  A pattern is a sequence of          *)
(* elements: a character class with a greedy repetition {min,max}, or the  *)
(* zero-width word boundary \b.  `grp` marks the elements inside the       *)
(* pattern's capture group.  Matching is leftmost, greedy, backtracking.   *)
(***************************************************************************)
\* the upper limit of `+`, `*` and `{n,}`
Unbounded == -1

Cls(set, min, max, grp) == [kind |-> "cls", set |-> set, min |-> min, max |-> max, grp |-> grp]
\* \b
WordBoundary == <<[kind |-> "wb", set |-> {}, min |-> 0, max |-> 0, grp |-> FALSE]>>

\* a literal string
Lit(str, grp) == [i \in 1..Len(str) |-> Cls({At(str, i)}, 1, 1, grp)]
\* x+  x*  x?  x{lo,hi}
Plus(set, grp) == <<Cls(set, 1, Unbounded, grp)>>
Star(set, grp) == <<Cls(set, 0, Unbounded, grp)>>
Opt(set, grp) == <<Cls(set, 0, 1, grp)>>
Rep(set, lo, hi, grp) == <<Cls(set, lo, hi, grp)>>

SpaceSet == {" ", "\n", "\t", "\r", "\f"}

\* whether character c is in the class; under re.IGNORECASE letters match in
\* either case
InClass(c, set, ignorecase) ==
    IF ignorecase THEN \E d \in set : LowerChar(d) = LowerChar(c) ELSE c \in set

\* whether there is a word character at index i of t
WordAt(t, i) == i >= 1 /\ i <= Len(t) /\ IsWord(At(t, i))

\* \b holds between index pos-1 and index pos
AtBoundary(t, pos) == WordAt(t, pos - 1) # WordAt(t, pos)

\* the number of characters from index pos on that are in the class, at most cap
RECURSIVE RunLength(_, _, _, _, _)
RunLength(t, pos, set, ignorecase, cap) ==
    IF cap = 0 \/ pos > Len(t) \/ ~InClass(At(t, pos), set, ignorecase) THEN 0
    ELSE 1 + RunLength(t, pos + 1, set, ignorecase, IF cap > 0 THEN cap - 1 ELSE cap)

NoMatch == [ok |-> FALSE, start |-> 0, ends |-> <<>>]

\* MatchFrom: match elements k.. of pat at index pos; ends[j] is the index after
\* the j-th of these elements.  TryCounts: the repetition counts of element k
\* from n downwards, the first that lets the rest of the pattern match.
RECURSIVE MatchFrom(_, _, _, _, _)
RECURSIVE TryCounts(_, _, _, _, _, _)
MatchFrom(t, pat, ignorecase, k, pos) ==
    IF k > Len(pat) THEN [ok |-> TRUE, start |-> pos, ends |-> <<>>]
    ELSE IF pat[k].kind = "wb"
         THEN IF AtBoundary(t, pos)
              THEN LET r == MatchFrom(t, pat, ignorecase, k + 1, pos)
                   IN  IF r.ok THEN [r EXCEPT !.ends = <<pos>> \o r.ends] ELSE NoMatch
              ELSE NoMatch
         ELSE TryCounts(t, pat, ignorecase, k, pos,
                        RunLength(t, pos, pat[k].set, ignorecase, pat[k].max))

TryCounts(t, pat, ignorecase, k, pos, n) ==
    IF n < pat[k].min THEN NoMatch
    ELSE LET r == MatchFrom(t, pat, ignorecase, k + 1, pos + n)
         IN  IF r.ok THEN [r EXCEPT !.ends = <<pos + n>> \o r.ends]
             ELSE TryCounts(t, pat, ignorecase, k, pos, n - 1)

\* the first element of pat that consumes characters (0 when there is none)
FirstConsuming(pat) ==
    LET consuming == {k \in 1..Len(pat) : pat[k].kind = "cls"}
    IN  IF consuming = {} THEN 0
        ELSE CHOOSE k \in consuming : \A j \in consuming : k <= j

\* re.search from index i on: the match at the leftmost index at which the
\* pattern matches.  When the first consuming element must consume a character,
\* only the indexes whose character is in its class are tried (the others cannot
\* start a match).
SearchFrom(t, pat, ignorecase, i) ==
    LET k0 == FirstConsuming(pat)
        must == k0 > 0 /\ pat[k0].min > 0
        starts == {a \in i..(Len(t) + 1) :
                      /\ must => (a <= Len(t) /\ InClass(At(t, a), pat[k0].set, ignorecase))
                      /\ MatchFrom(t, pat, ignorecase, 1, a).ok}
    IN  IF starts = {} THEN NoMatch
        ELSE LET first == CHOOSE a \in starts : \A b \in starts : a <= b
             IN  [MatchFrom(t, pat, ignorecase, 1, first) EXCEPT !.start = first]

\* re.search(pat, t, flags)
Search(t, pat, ignorecase) == SearchFrom(t, pat, ignorecase, 1)

\* the index after the whole match m
MatchEnd(pat, m) == IF Len(pat) = 0 THEN m.start ELSE m.ends[Len(pat)]

\* match.group(1)
Group1(t, pat, m) ==
    LET inside == {k \in 1..Len(pat) : pat[k].grp}
        first == CHOOSE k \in inside : \A j \in inside : k <= j
        last == CHOOSE k \in inside : \A j \in inside : k >= j
        from == IF first = 1 THEN m.start ELSE m.ends[first - 1]
    IN  SubSeq(t, from, m.ends[last] - 1)

\* re.findall(pat, t, flags) for a pattern with one group: the group of every
\* non-overlapping match, left to right
RECURSIVE FindAllFrom(_, _, _, _)
FindAllFrom(t, pat, ignorecase, i) ==
    LET m == SearchFrom(t, pat, ignorecase, i)
    IN  IF ~m.ok THEN <<>>
        ELSE <<Group1(t, pat, m)>> \o
             FindAllFrom(t, pat, ignorecase,
                         IF MatchEnd(pat, m) = m.start THEN m.start + 1 ELSE MatchEnd(pat, m))

FindAll(t, pat, ignorecase) == FindAllFrom(t, pat, ignorecase, 1)

(***************************************************************************)
(* extract_version, extract_date, extract_author                           *)
(***************************************************************************)
\* (\d+\.\d+)
VersionNumber == Plus(DigitSet, TRUE) \o Lit(".", TRUE) \o Plus(DigitSet, TRUE)

VERSION_PATTERNS == <<
    Lit("version", FALSE) \o Plus(SpaceSet, FALSE) \o VersionNumber,
    Lit("v", FALSE) \o VersionNumber,
    Lit("rev", FALSE) \o Opt({"."}, FALSE) \o Plus(SpaceSet, FALSE) \o VersionNumber >>

\* (\d{1,2}[/-]\d{1,2}[/-]\d{2,4})
DateToken ==
    Rep(DigitSet, 1, 2, TRUE) \o Rep({"/", "-"}, 1, 1, TRUE) \o
    Rep(DigitSet, 1, 2, TRUE) \o Rep({"/", "-"}, 1, 1, TRUE) \o Rep(DigitSet, 2, 4, TRUE)

DATE_PATTERNS == <<
    Lit("effective", FALSE) \o Plus(SpaceSet, FALSE) \o Lit("date:", FALSE)
        \o Star(SpaceSet, FALSE) \o DateToken,
    Lit("effective:", FALSE) \o Star(SpaceSet, FALSE) \o DateToken,
    Lit("date:", FALSE) \o Star(SpaceSet, FALSE) \o DateToken >>

\* ([A-Z][a-z]+\s+[A-Z][a-z]+)
PersonName ==
    Rep(UpperSet, 1, 1, TRUE) \o Plus(LowerSet, TRUE) \o Plus(SpaceSet, TRUE) \o
    Rep(UpperSet, 1, 1, TRUE) \o Plus(LowerSet, TRUE)

AUTHOR_PATTERNS == <<
    Lit("author:", FALSE) \o Star(SpaceSet, FALSE) \o PersonName,
    Lit("prepared", FALSE) \o Plus(SpaceSet, FALSE) \o Lit("by:", FALSE)
        \o Star(SpaceSet, FALSE) \o PersonName,
    Lit("written", FALSE) \o Plus(SpaceSet, FALSE) \o Lit("by:", FALSE)
        \o Star(SpaceSet, FALSE) \o PersonName >>

\* for pattern in patterns: match = re.search(...); if match: return match.group(1)
\* ... return None
RECURSIVE FirstGroupFrom(_, _, _, _)
FirstGroupFrom(t, patterns, ignorecase, n) ==
    IF n > Len(patterns) THEN None
    ELSE LET m == Search(t, patterns[n], ignorecase)
         IN  IF m.ok THEN Group1(t, patterns[n], m)
             ELSE FirstGroupFrom(t, patterns, ignorecase, n + 1)

\* the "best match" reading: the pattern whose match starts leftmost in the text
LeftmostGroup(t, patterns, ignorecase) ==
    LET hits == {n \in 1..Len(patterns) : Search(t, patterns[n], ignorecase).ok}
    IN  IF hits = {} THEN None
        ELSE LET n == CHOOSE a \in hits : \A b \in hits :
                          \/ Search(t, patterns[a], ignorecase).start
                               < Search(t, patterns[b], ignorecase).start
                          \/ /\ Search(t, patterns[a], ignorecase).start
                                  = Search(t, patterns[b], ignorecase).start
                             /\ a <= b
             IN  Group1(t, patterns[n], Search(t, patterns[n], ignorecase))

FirstGroup(t, patterns, ignorecase) == FirstGroupFrom(t, patterns, ignorecase, 1)

extract_version(t) == FirstGroup(t, VERSION_PATTERNS, TRUE)
extract_date(t) == FirstGroup(t, DATE_PATTERNS, TRUE)
extract_author(t) == FirstGroup(t, AUTHOR_PATTERNS, FALSE)

(***************************************************************************)
(* Version, date and author extraction (parse_metadata, lines 313-319).    *)
(***************************************************************************)
ExtractFragments ==
    {"Version 1.0 ", "v2.3 ", "Rev. 3.1 ", "Effective: 3/4/2021 ", "Date: 1-2-20 ",
     "prepared by: Al Po ", "author: Jo Li ", "Author: N/A "}

InitExtract ==
    /\ text \in Concats(ExtractFragments, MaxFrags)
    /\ page_count = 0
    /\ key = "doc.pdf"
    /\ pc = "input"
    /\ metadata = EmptyMetadata
    /\ PipelineIdle

ExtractFields ==
    /\ pc = "input"
    /\ metadata' = [metadata EXCEPT
           !.version = extract_version(text),
           !.effective_date = extract_date(text),
           !.author = extract_author(text)]
    /\ pc' = "done"
    /\ UNCHANGED <<text, page_count, key>>
    /\ UNCHANGED pipelineVars

NextExtract == ExtractFields

SpecExtract == InitExtract /\ [][NextExtract]_vars

(***************************************************************************)
(* C5: ordered, short-circuit pattern lists.                               *)
(***************************************************************************)
\* the capture of the pattern of lowest list index that matches somewhere in t,
\* None when no pattern matches
FirstListed(t, patterns, ignorecase) ==
    LET hits == {n \in 1..Len(patterns) : Search(t, patterns[n], ignorecase).ok}
    IN  IF hits = {} THEN None
        ELSE LET n == CHOOSE a \in hits : \A b \in hits : a <= b
             IN  Group1(t, patterns[n], Search(t, patterns[n], ignorecase))

\* C5: version, effective date and author are the capture of the first pattern
\* in list order that matches anywhere in the text, whatever the positions of the
\* matches of later patterns, and None when no pattern matches.
C5_FirstListedPatternWins ==
    pc = "done" =>
        /\ metadata.version = FirstListed(text, VERSION_PATTERNS, TRUE)
        /\ metadata.effective_date = FirstListed(text, DATE_PATTERNS, TRUE)
        /\ metadata.author = FirstListed(text, AUTHOR_PATTERNS, FALSE)

\* the second version pattern matches at index 1, the first one further right:
\* the first one decides; no date or author pattern matches
C5_Witness ==
    /\ pc = "done"
    /\ text = "v2.3 Version 1.0 Author: N/A "
    /\ Search(text, VERSION_PATTERNS[2], TRUE).start = 1
    /\ Search(text, VERSION_PATTERNS[1], TRUE).start = 6
    /\ metadata.version = "1.0"
    /\ metadata.effective_date = None
    /\ metadata.author = None

(***************************************************************************)
(* extract_facility                                                        *)
(***************************************************************************)
FACILITY_PATTERNS == <<
    Lit("Building", TRUE) \o Plus(SpaceSet, TRUE) \o Plus(UpperSet \cup DigitSet, TRUE),
    Lit("Room", TRUE) \o Plus(SpaceSet, TRUE) \o Plus(DigitSet, TRUE),
    Lit("Floor", TRUE) \o Plus(SpaceSet, TRUE) \o Plus(DigitSet, TRUE) >>

\* the list `facilities` after the loop: the matches of the patterns, in pattern
\* order and, per pattern, in text order
RECURSIVE FacilitiesFrom(_, _)
FacilitiesFrom(t, n) ==
    IF n > Len(FACILITY_PATTERNS) THEN <<>>
    ELSE FindAll(t, FACILITY_PATTERNS[n], TRUE) \o FacilitiesFrom(t, n + 1)

Facilities(t) == FacilitiesFrom(t, 1)

\* facilities[:3]
FirstThree(list) == SubSeq(list, 1, Min(3, Len(list)))

\* set(facilities[:3])
FacilitySet(t) == {FirstThree(Facilities(t))[i] : i \in 1..Len(FirstThree(Facilities(t)))}

\* the orders in which a set may be iterated
Orders(S) ==
    {o \in [1..Cardinality(S) -> S] : \A i, j \in 1..Cardinality(S) : o[i] = o[j] => i = j}

\* ', '.join(seq)
RECURSIVE Join(_)
Join(seq) ==
    IF Len(seq) = 0 THEN ""
    ELSE IF Len(seq) = 1 THEN seq[1]
    ELSE seq[1] \o ", " \o Join(Tail(seq))

\* the values extract_facility may return: the iteration order of a set of
\* strings is not fixed by the language
extract_facility(t) ==
    IF Facilities(t) = <<>> THEN {None}
    ELSE {Join(o) : o \in Orders(FacilitySet(t))}

(***************************************************************************)
(* Facility extraction on a text (parse_metadata, line 322).               *)
(***************************************************************************)
FacilityFragments ==
    {"Facility: Building A, Floor 3\n", "near Building A entrance\n",
     "Room 301, Building A\n", "Room 301\n", "building b ", "the lobby\n"}

InitFacility ==
    /\ text \in Concats(FacilityFragments, MaxFrags)
    /\ page_count = 0
    /\ key = "doc.pdf"
    /\ pc = "input"
    /\ metadata = EmptyMetadata
    /\ PipelineIdle

ExtractFacility ==
    /\ pc = "input"
    /\ \E facility \in extract_facility(text) :
           metadata' = [metadata EXCEPT !.facility = facility]
    /\ pc' = "done"
    /\ UNCHANGED <<text, page_count, key>>
    /\ UNCHANGED pipelineVars

NextFacility == ExtractFacility

SpecFacility == InitFacility /\ [][NextFacility]_vars

(***************************************************************************)
(* C6: facility extraction.                                                *)
(***************************************************************************)
\* list without its repeated entries, first occurrences kept in order
RECURSIVE Dedup(_)
Dedup(list) ==
    IF list = <<>> THEN <<>>
    ELSE LET front == Dedup(SubSeq(list, 1, Len(list) - 1))
             last == list[Len(list)]
         IN  IF last \in Range(front) THEN front ELSE Append(front, last)

\* the joined strings of the entries of list, in any order
Joined(list) == {Join(o) : o \in Orders(Range(list))}

\* C6: the facility field holds the first 3 unique matches of the three patterns
\* (duplicates removed before truncation); so with a Building match, a Room match
\* and at most 3 distinct matches overall it holds both, however often a match
\* repeats.
C6_DedupThenFirstThree ==
    pc = "done" =>
        LET all == Facilities(text)
            unique == Dedup(all)
        IN  /\ all # <<>> => metadata.facility \in Joined(FirstThree(unique))
            /\ ( /\ FindAll(text, FACILITY_PATTERNS[1], TRUE) # <<>>
                 /\ FindAll(text, FACILITY_PATTERNS[2], TRUE) # <<>>
                 /\ Len(unique) <= 3 )
               => \A want \in Range(unique) :
                      \E o \in Orders(Range(unique)) :
                          /\ metadata.facility = Join(o)
                          /\ want \in Range(o)

(***************************************************************************)
(* detect_jurisdiction                                                     *)
(***************************************************************************)
US_STATES == <<
    "AL", "AK", "AZ", "AR", "CA", "CO", "CT", "DE", "FL", "GA",
    "HI", "ID", "IL", "IN", "IA", "KS", "KY", "LA", "ME", "MD",
    "MA", "MI", "MN", "MS", "MO", "MT", "NE", "NV", "NH", "NJ",
    "NM", "NY", "NC", "ND", "OH", "OK", "OR", "PA", "RI", "SC",
    "SD", "TN", "TX", "UT", "VT", "VA", "WA", "WV", "WI", "WY" >>

\* rf'\b{state}\b'
StatePattern(state) == WordBoundary \o Lit(state, FALSE) \o WordBoundary

\* for state in US_STATES: if re.search(...): return state ... return None
RECURSIVE JurisdictionFrom(_, _, _)
JurisdictionFrom(t, n, ignorecase) ==
    IF n > Len(US_STATES) THEN None
    ELSE IF Search(t, StatePattern(US_STATES[n]), ignorecase).ok THEN US_STATES[n]
    ELSE JurisdictionFrom(t, n + 1, ignorecase)

\* the slip of matching the codes without regard to case
detect_jurisdiction_IgnoreCase(t) == JurisdictionFrom(t, 1, TRUE)

detect_jurisdiction(t) == JurisdictionFrom(t, 1, FALSE)

(***************************************************************************)
(* Jurisdiction detection on a text (parse_metadata, line 325).            *)
(***************************************************************************)
JurisdictionFragments ==
    {"Virginia (VA) ", "VA", "CA ", "in ", "or me ", "OR", "_x ", "Richmond, "}

InitJurisdiction ==
    /\ text \in Concats(JurisdictionFragments, MaxFrags)
    /\ page_count = 0
    /\ key = "doc.pdf"
    /\ pc = "input"
    /\ metadata = EmptyMetadata
    /\ PipelineIdle

DetectJurisdiction ==
    /\ pc = "input"
    /\ metadata' = [metadata EXCEPT !.jurisdiction = detect_jurisdiction(text)]
    /\ pc' = "done"
    /\ UNCHANGED <<text, page_count, key>>
    /\ UNCHANGED pipelineVars

NextJurisdiction == DetectJurisdiction

SpecJurisdiction == InitJurisdiction /\ [][NextJurisdiction]_vars

(***************************************************************************)
(* C7: jurisdiction detection.                                             *)
(***************************************************************************)
\* code occurs in t, in the case written, with no word character on either side
WholeToken(t, code) ==
    \E i \in 1..Len(t) :
        /\ i + Len(code) - 1 <= Len(t)
        /\ SubSeq(t, i, i + Len(code) - 1) = code
        /\ ~WordAt(t, i - 1)
        /\ ~WordAt(t, i + Len(code))

\* C7: the result is the code of lowest index in US_STATES that occurs as a whole
\* token of the raw text, None when there is none; a text without upper-case
\* letters has no jurisdiction.
C7_FirstCodeInListOrder ==
    pc = "done" =>
        LET hits == {n \in 1..Len(US_STATES) : WholeToken(text, US_STATES[n])}
        IN  /\ hits = {} => metadata.jurisdiction = None
            /\ hits # {} =>
                   \E n \in hits :
                       /\ metadata.jurisdiction = US_STATES[n]
                       /\ \A m \in hits : n <= m
            /\ text = Lower(text) => metadata.jurisdiction = None

\* VA comes first in the text and CA first in the list; the lower-case words
\* "or" and "me" are not taken for OR and ME
C7_Witness ==
    /\ pc = "done"
    /\ text = "Virginia (VA) or me CA "
    /\ metadata.jurisdiction = "CA"

(***************************************************************************)
(* detect_pii                                                              *)
(***************************************************************************)
\* [A-Za-z0-9._%+-]
EmailLocalSet == UpperSet \cup LowerSet \cup DigitSet \cup {".", "_", "%", "+", "-"}
\* [A-Za-z0-9.-]
EmailDomainSet == UpperSet \cup LowerSet \cup DigitSet \cup {".", "-"}
\* [A-Z|a-z]
EmailTldSet == UpperSet \cup LowerSet \cup {"|"}

PII_PATTERNS == <<
    \* phone number
    WordBoundary \o Rep(DigitSet, 3, 3, FALSE) \o Opt({"-", "."}, FALSE)
        \o Rep(DigitSet, 3, 3, FALSE) \o Opt({"-", "."}, FALSE)
        \o Rep(DigitSet, 4, 4, FALSE) \o WordBoundary,
    \* email
    WordBoundary \o Plus(EmailLocalSet, FALSE) \o Lit("@", FALSE)
        \o Plus(EmailDomainSet, FALSE) \o Lit(".", FALSE)
        \o Rep(EmailTldSet, 2, Unbounded, FALSE) \o WordBoundary,
    \* SSN
    WordBoundary \o Rep(DigitSet, 3, 3, FALSE) \o Lit("-", FALSE)
        \o Rep(DigitSet, 2, 2, FALSE) \o Lit("-", FALSE)
        \o Rep(DigitSet, 4, 4, FALSE) \o WordBoundary >>

\* for pattern in pii_patterns: if re.search(pattern, text): return True
RECURSIVE AnyPatternFrom(_, _, _)
AnyPatternFrom(t, patterns, n) ==
    IF n > Len(patterns) THEN FALSE
    ELSE IF Search(t, patterns[n], FALSE).ok THEN TRUE
    ELSE AnyPatternFrom(t, patterns, n + 1)

\* the slip of leaving the last pattern of the list untested
detect_pii_TwoPatterns(t) == AnyPatternFrom(t, SubSeq(PII_PATTERNS, 1, 2), 1)

detect_pii(t) == AnyPatternFrom(t, PII_PATTERNS, 1)

(***************************************************************************)
(* PII detection on a text (process_document, line 164).                   *)
(***************************************************************************)
PiiFragments ==
    {"555-123-4567", "jane@example.com", "123-45-6789", " Call ", "x", "7",
     "555.1234", "@acme"}

InitPii ==
    /\ text \in Concats(PiiFragments, MaxFrags)
    /\ page_count = 0
    /\ key = "doc.pdf"
    /\ pc = "input"
    /\ metadata = EmptyMetadata
    /\ PipelineIdle

DetectPii ==
    /\ pc = "input"
    /\ metadata' = [metadata EXCEPT !.pii_present = detect_pii(text)]
    /\ pc' = "done"
    /\ UNCHANGED <<text, page_count, key>>
    /\ UNCHANGED pipelineVars

NextPii == DetectPii

SpecPii == InitPii /\ [][NextPii]_vars

(***************************************************************************)
(* C8: PII detection.                                                      *)
(***************************************************************************)
AllIn(str, set) == \A i \in 1..Len(str) : At(str, i) \in set

\* ddd[-.]?ddd[-.]?dddd
PhoneShape(str) ==
    \E a, b \in 0..1 :
        /\ Len(str) = 10 + a + b
        /\ AllIn(SubSeq(str, 1, 3), DigitSet)
        /\ a = 1 => At(str, 4) \in {"-", "."}
        /\ AllIn(SubSeq(str, 4 + a, 6 + a), DigitSet)
        /\ b = 1 => At(str, 7 + a) \in {"-", "."}
        /\ AllIn(SubSeq(str, 7 + a + b, 10 + a + b), DigitSet)

\* ddd-dd-dddd
GovernmentIdShape(str) ==
    /\ Len(str) = 11
    /\ \A i \in 1..11 :
           IF i \in {4, 7} THEN At(str, i) = "-" ELSE IsDigit(At(str, i))

\* local@domain.tld: a non-empty local part, a non-empty domain and a top-level
\* part of two or more characters
EmailShape(str) ==
    \E at \in 2..Len(str) : \E dot \in (at + 2)..(Len(str) - 2) :
        /\ At(str, at) = "@"
        /\ At(str, dot) = "."
        /\ AllIn(SubSeq(str, 1, at - 1), EmailLocalSet)
        /\ AllIn(SubSeq(str, at + 1, dot - 1), EmailDomainSet)
        /\ AllIn(SubSeq(str, dot + 1, Len(str)), EmailTldSet)

\* t has a token of one of the three shapes, delimited by word boundaries
HasPiiToken(t) ==
    \E i \in 1..Len(t) : \E j \in i..Len(t) :
        /\ AtBoundary(t, i)
        /\ AtBoundary(t, j + 1)
        /\ \/ PhoneShape(SubSeq(t, i, j))
           \/ EmailShape(SubSeq(t, i, j))
           \/ GovernmentIdShape(SubSeq(t, i, j))

\* C8: pii_present is true exactly when the raw text has a token of telephone,
\* email or government-ID shape.
C8_PiiIffShapePresent ==
    pc = "done" => (metadata.pii_present = HasPiiToken(text))

\* a government ID, which the telephone and email patterns do not match, is found
C8_Witness ==
    /\ pc = "done"
    /\ text = " Call 123-45-6789"
    /\ ~Search(text, PII_PATTERNS[1], FALSE).ok
    /\ ~Search(text, PII_PATTERNS[2], FALSE).ok
    /\ metadata.pii_present = TRUE

(***************************************************************************)
(* calculate_ocr_coverage.  Percentages are kept in hundredths of a        *)
(* percent, the resolution of round(coverage, 2): 3333 stands for 33.33.   *)
(***************************************************************************)
\* "average 300 words per page for good coverage"
WordsPerPage == 300

\* len(text.split()): the number of maximal runs of non-whitespace characters
WordCount(t) ==
    Cardinality({i \in 1..Len(t) :
        /\ ~IsSpace(At(t, i))
        /\ (i = 1 \/ IsSpace(At(t, i - 1)))})

\* the integer nearest to num / den, a tie going to the even neighbour (round())
RoundHalfEven(num, den) ==
    LET q == num \div den
        r == num % den
    IN  IF 2 * r < den THEN q
        ELSE IF 2 * r > den THEN q + 1
        ELSE IF q % 2 = 0 THEN q ELSE q + 1

\* the slip of leaving out min(100.0, ...)
calculate_ocr_coverage_NoClamp(t, pages) ==
    IF pages = 0 THEN 0
    ELSE RoundHalfEven(WordCount(t) * 100 * 100, pages * WordsPerPage)

calculate_ocr_coverage(t, pages) ==
    IF pages = 0 THEN 0
    ELSE LET word_count == WordCount(t)
             expected_words == pages * WordsPerPage
         IN  Min(100 * 100, RoundHalfEven(word_count * 100 * 100, expected_words))

(***************************************************************************)
(* OCR coverage of a text (process_document, line 153).                    *)
(***************************************************************************)
\* s repeated n times
RECURSIVE Repeat(_, _)
Repeat(str, n) ==
    IF n = 0 THEN ""
    ELSE LET half == Repeat(str, n \div 2)
         IN  half \o half \o (IF n % 2 = 1 THEN str ELSE "")

\* one word with the whitespace around it
WordForms == {"a ", "word\n", " x \t"}

\* word counts at, just below and just above every half page, up to twice the
\* expected count of the largest page count
CoverageWordCounts ==
    {n \in {k * (WordsPerPage \div 2) + d : k \in 0..(4 * MaxPages), d \in {-1, 0, 1}} :
        n >= 0}

InitCoverage ==
    /\ text \in {Repeat(w, n) : w \in WordForms, n \in CoverageWordCounts}
    /\ page_count \in 0..MaxPages
    /\ key = "doc.pdf"
    /\ pc = "input"
    /\ metadata = EmptyMetadata
    /\ PipelineIdle

CalculateCoverage ==
    /\ pc = "input"
    /\ metadata' = [metadata EXCEPT
           !.ocr_coverage_pct = calculate_ocr_coverage(text, page_count)]
    /\ pc' = "done"
    /\ UNCHANGED <<text, page_count, key>>
    /\ UNCHANGED pipelineVars

NextCoverage == CalculateCoverage

SpecCoverage == InitCoverage /\ [][NextCoverage]_vars

(***************************************************************************)
(* C9: OCR coverage.                                                       *)
(***************************************************************************)
\* C9 as stated: the coverage is in [0,100], 0 for no pages, 100 from the
\* expected word count on, and below it exactly word_count*100/(page_count*300).
C9_ExactQuotientBelowExpected ==
    pc = "done" =>
        LET words == WordCount(text)
            expected == page_count * WordsPerPage
        IN  /\ metadata.ocr_coverage_pct \in 0..(100 * 100)
            /\ page_count = 0 => metadata.ocr_coverage_pct = 0
            /\ (page_count > 0 /\ words >= expected)
                 => metadata.ocr_coverage_pct = 100 * 100
            /\ (page_count > 0 /\ words < expected)
                 => metadata.ocr_coverage_pct * expected = words * 100 * 100

\* C9, amended: below the expected word count the coverage is the quotient
\* word_count*100/(page_count*300) rounded to 2 decimal places, that is, the
\* hundredth nearest to it.
C9_CoverageClampedAndRounded ==
    pc = "done" =>
        LET words == WordCount(text)
            expected == page_count * WordsPerPage
            diff == metadata.ocr_coverage_pct * expected - words * 100 * 100
        IN  /\ metadata.ocr_coverage_pct \in 0..(100 * 100)
            /\ page_count = 0 => metadata.ocr_coverage_pct = 0
            /\ (page_count > 0 /\ words >= expected)
                 => metadata.ocr_coverage_pct = 100 * 100
            /\ (page_count > 0 /\ words < expected)
                 => /\ 2 * diff <= expected
                    /\ 2 * diff >= 0 - expected

\* twice the expected words on one page: the quotient 200 is clamped to 100
C9_Witness ==
    /\ pc = "done"
    /\ page_count = 1
    /\ WordCount(text) = 2 * page_count * WordsPerPage
    /\ metadata.ocr_coverage_pct = 100 * 100

(***************************************************************************)
(* extract_org_id_from_path, parse_metadata                                *)
(***************************************************************************)
\* key.split('/')[0]: the part of k before its first '/'
FirstSegment(k) ==
    LET cut == CHOOSE i \in 1..Len(k) :
                   At(k, i) = "/" /\ \A j \in 1..(i - 1) : At(k, j) # "/"
    IN  SubSeq(k, 1, cut - 1)

extract_org_id_from_path(k) ==
    IF Contains(k, "/") THEN FirstSegment(k) ELSE "default_org"

\* the dicts parse_metadata may return, one per value extract_facility may return
parse_metadata(t, k) ==
    LET text_lower == Lower(t)
    IN  {[org_id |-> extract_org_id_from_path(k),
          doctype |-> detect_doctype(text_lower),
          roles_involved |-> detect_keywords(text_lower, ROLE_KEYWORDS),
          hazard_types |-> detect_keywords(text_lower, HAZARD_KEYWORDS),
          version |-> extract_version(t),
          effective_date |-> extract_date(t),
          author |-> extract_author(t),
          facility |-> facility,
          jurisdiction |-> detect_jurisdiction(t)] : facility \in extract_facility(t)}

\* the slip of taking the default for a key that is present with the value None
DictGet_DefaultOnNone(dict, name, default) ==
    IF name \in DOMAIN dict /\ dict[name] # None THEN dict[name] ELSE default

\* dict.get(name, default): the default is used only when the key is missing
DictGet(dict, name, default) ==
    IF name \in DOMAIN dict THEN dict[name] ELSE default

(***************************************************************************)
(* process_document, steps 3 and 4: the record built from the extracted    *)
(* text, the page count and the source key.                                *)
(***************************************************************************)
ScenarioParts == <<
    "This Standard Operating Procedure covers ",
    "chemical spill response by the EHS team ",
    "in Building A, Virginia. ", "(VA) ",
    "Contact: safety@acme.com. ", "Version 2.1." >>

\* the parts with index in S, in order
RECURSIVE PartsText(_, _)
PartsText(S, n) ==
    IF n > Len(ScenarioParts) THEN ""
    ELSE (IF n \in S THEN ScenarioParts[n] ELSE "") \o PartsText(S, n + 1)

ScenarioTexts == {PartsText(S, 1) : S \in SUBSET (1..Len(ScenarioParts))}

Init ==
    /\ text \in ScenarioTexts
    /\ page_count \in 0..MaxPages
    /\ key \in {"org1/sop.pdf", "sop.pdf"}
    /\ pc = "input"
    /\ metadata = EmptyMetadata
    /\ PipelineIdle

BuildRecord ==
    /\ pc = "input"
    /\ \E parsed_metadata \in parse_metadata(text, key) :
           metadata' =
               [source_key |-> key,
                org_id |-> parsed_metadata.org_id,
                version |-> DictGet(parsed_metadata, "version", "1.0"),
                effective_date |-> DictGet(parsed_metadata, "effective_date", None),
                author |-> DictGet(parsed_metadata, "author", None),
                pages |-> page_count,
                mime_type |-> "application/pdf",
                ocr_coverage_pct |-> calculate_ocr_coverage(text, page_count),
                doctype |-> parsed_metadata.doctype,
                roles_involved |-> parsed_metadata.roles_involved,
                hazard_types |-> parsed_metadata.hazard_types,
                facility |-> DictGet(parsed_metadata, "facility", None),
                jurisdiction |-> DictGet(parsed_metadata, "jurisdiction", None),
                classification |-> "internal",
                pii_present |-> detect_pii(text),
                text_preview |-> IF text # "" THEN SubSeq(text, 1, Min(500, Len(text))) ELSE ""]
    /\ pc' = "done"
    /\ UNCHANGED <<text, page_count, key>>
    /\ UNCHANGED pipelineVars

Next == BuildRecord

Spec == Init /\ [][Next]_vars

(***************************************************************************)
(* C10: the end-to-end scenario.                                           *)
(***************************************************************************)
ScenarioText ==
    "This Standard Operating Procedure covers chemical spill response by the EHS team in Building A, Virginia. Contact: safety@acme.com. Version 2.1."

ScenarioBuilt == pc = "done" /\ text = ScenarioText /\ page_count = 1

ScenarioFieldsButJurisdiction ==
    /\ metadata.doctype = "sop"
    /\ "chemical" \in Range(metadata.hazard_types)
    /\ "ehs" \in Range(metadata.roles_involved)
    /\ Contains(metadata.facility, "Building A")
    /\ metadata.pii_present = TRUE
    /\ metadata.version = "2.1"

\* C10 as stated: the record of the scenario text has document type sop, hazard
\* chemical, role ehs, facility Building A, PII present, version 2.1 and
\* jurisdiction VA.
C10_ScenarioJurisdictionVA ==
    ScenarioBuilt => (ScenarioFieldsButJurisdiction /\ metadata.jurisdiction = "VA")

\* C10, amended: the same record, with no jurisdiction: the text spells the
\* state's name and holds no state code.
C10_ScenarioNoJurisdiction ==
    ScenarioBuilt => (ScenarioFieldsButJurisdiction /\ metadata.jurisdiction = None)

\* the record of the scenario text
C10_Witness ==
    /\ ScenarioBuilt
    /\ metadata.doctype = "sop"
    /\ metadata.version = "2.1"
    /\ metadata.jurisdiction = None

(***************************************************************************)
(* The ingestion pipeline: lambda_handler and process_document, one step   *)
(* per call to Textract, S3 or DynamoDB.                                   *)
(***************************************************************************)
\* s.endswith(suffix)
EndsWith(s, suffix) ==
    /\ Len(s) >= Len(suffix)
    /\ SubSeq(s, Len(s) - Len(suffix) + 1, Len(s)) = suffix

\* s.split('/')[-1]: the part of s after its last '/'
LastSegment(s) ==
    LET slashes == {i \in 1..Len(s) : At(s, i) = "/"}
        last == IF slashes = {} THEN 0
                ELSE CHOOSE i \in slashes : \A j \in slashes : j <= i
    IN  SubSeq(s, last + 1, Len(s))

\* s.replace(old, new): every occurrence of old, leftmost first, case-sensitively
RECURSIVE Replace(_, _, _)
Replace(s, old, new) ==
    IF Len(s) < Len(old) THEN s
    ELSE IF SubSeq(s, 1, Len(old)) = old
         THEN new \o Replace(SubSeq(s, Len(old) + 1, Len(s)), old, new)
         ELSE At(s, 1) \o Replace(SubSeq(s, 2, Len(s)), old, new)

\* '\n'.join(seq)
RECURSIVE JoinLines(_)
JoinLines(seq) ==
    IF Len(seq) = 0 THEN ""
    ELSE IF Len(seq) = 1 THEN seq[1]
    ELSE seq[1] \o "\n" \o JoinLines(Tail(seq))

\* the slip of testing the key as it is spelled
IsPdf_CaseSensitive(k) == EndsWith(k, ".pdf")

\* the test of lambda_handler on a record's key
IsPdf(k) == EndsWith(Lower(k), ".pdf")

\* the key of the parsed text (save_text_to_s3)
parsed_key(doc_id, original_key) ==
    doc_id \o "/" \o Replace(LastSegment(original_key), ".pdf", ".txt")

\* a block of a Textract response
Block(type, t) == [BlockType |-> type, Text |-> t]

\* the uploaded objects: what Textract answers for each, page of results by page
\* of results, and what S3 holds
Uploads ==
    ("org1/plan.pdf" :>
        [responses |-> << <<Block("PAGE", ""), Block("LINE", "Room 301"), Block("WORD", "Room")>>,
                          <<Block("LINE", "Building A")>> >>,
         ContentLength |-> 2048, sha256 |-> "sha256-plan"])
    @@ ("org1/REPORT.PDF" :>
        [responses |-> << <<Block("PAGE", ""), Block("LINE", "the lobby")>> >>,
         ContentLength |-> 512, sha256 |-> "sha256-report"])
    @@ ("org2/notes.txt" :>
        [responses |-> << <<Block("LINE", "Version 3")>> >>,
         ContentLength |-> 16, sha256 |-> "sha256-notes"])

Keys == DOMAIN Uploads
PdfKeys == {k \in Keys : IsPdf(k)}

\* the bucket the records of an event name
bucket == "respondr-docs-demo"

\* the events: at most MaxRecords records, each the key of another uploaded object
Events ==
    UNION {{e \in [1..n -> Keys] : \A i, j \in 1..n : e[i] = e[j] => i = j} : n \in 1..MaxRecords}

\* the job statuses Textract reports
JobStatuses == {"IN_PROGRESS", "PARTIAL_SUCCESS", "SUCCEEDED", "FAILED"}

max_attempts == 60
sleep_seconds == 5

\* the texts of the LINE blocks, and the number of PAGE blocks, of a response
RECURSIVE LineTexts(_)
LineTexts(blocks) ==
    IF blocks = <<>> THEN <<>>
    ELSE (IF Head(blocks).BlockType = "LINE" THEN <<Head(blocks).Text>> ELSE <<>>)
         \o LineTexts(Tail(blocks))

PageBlocks(blocks) ==
    Cardinality({i \in 1..Len(blocks) : blocks[i].BlockType = "PAGE"})

\* the slip of catching the exception inside the loop over the records: the
\* handler goes on with the next record
Raise_NextRecord(r, message) ==
    [IdleRun EXCEPT !.pc = "records", !.event = r.event, !.idx = r.idx + 1,
                    !.calls = r.calls, !.error = message]

\* an exception reaches the handler of lambda_handler (lines 103-111): the
\* frames of process_document are gone and the invocation returns 500
Raise(r, message) ==
    [IdleRun EXCEPT !.pc = "returned", !.event = r.event, !.idx = r.idx,
                    !.key = r.key, !.status = r.status, !.calls = r.calls,
                    !.statusCode = 500, !.error = message]

\* the call log with one more call
Called(r, operation, target, outcome) ==
    r.calls \cup {<<operation, target, outcome>>}

\* the outcomes of a call to S3 or DynamoDB
Outcomes == {"ok", "error"}

InitPipeline ==
    /\ text = ""
    /\ page_count = 0
    /\ key = ""
    /\ pc = "pipeline"
    /\ metadata = EmptyMetadata
    /\ PipelineIdle

\* S3 delivers an event to a new invocation
Invoke(p, event) ==
    /\ run[p].pc = "idle"
    /\ run' = [run EXCEPT ![p] = [IdleRun EXCEPT !.pc = "records", !.event = event, !.idx = 1]]
    /\ UNCHANGED <<table, parsed, uuids, clock, dash>>
    /\ UNCHANGED textVars

\* lines 84-93: a record whose key does not end in .pdf is passed over
SkipRecord(p) ==
    LET r == run[p] IN
    /\ r.pc = "records"
    /\ r.idx <= Len(r.event)
    /\ ~IsPdf(r.event[r.idx])
    /\ run' = [run EXCEPT ![p].idx = r.idx + 1]
    /\ UNCHANGED <<table, parsed, uuids, clock, dash>>
    /\ UNCHANGED textVars

\* lines 98-101: the records are exhausted
ReturnOk(p) ==
    LET r == run[p] IN
    /\ r.pc = "records"
    /\ r.idx > Len(r.event)
    /\ run' = [run EXCEPT ![p] =
                   [IdleRun EXCEPT !.pc = "returned", !.event = r.event, !.idx = r.idx,
                                   !.calls = r.calls, !.statusCode = 200]]
    /\ UNCHANGED <<table, parsed, uuids, clock, dash>>
    /\ UNCHANGED textVars

\* lines 96, 125, 197-212: process_document on a PDF record starts the Textract job
StartDetection(p) ==
    LET r == run[p] IN
    /\ r.pc = "records"
    /\ r.idx <= Len(r.event)
    /\ IsPdf(r.event[r.idx])
    /\ run' = [run EXCEPT ![p] =
                   [r EXCEPT !.pc = "poll", !.key = r.event[r.idx], !.attempt = 0,
                             !.calls = Called(r, "start_document_text_detection", r.event[r.idx], "ok")]]
    /\ UNCHANGED <<table, parsed, uuids, clock, dash>>
    /\ UNCHANGED textVars

\* the statuses that end a job
Terminal(status) == status \in {"SUCCEEDED", "FAILED"}

\* the slip of counting the attempt before the answer is looked at: a 60th
\* answer of succeeded is taken for a timeout
AfterPoll_CountFirst(r, status) ==
    LET polled == [r EXCEPT !.status = status, !.polls = r.polls + 1,
                            !.calls = Called(r, "get_document_text_detection", r.key, "ok")]
    IN  IF r.attempt + 1 >= max_attempts /\ status # "FAILED"
        THEN Raise(polled, "Textract job timeout")
        ELSE IF status = "SUCCEEDED"
        THEN [polled EXCEPT !.pc = "collect", !.response = 1]
        ELSE IF status = "FAILED"
        THEN Raise(polled, "Textract job failed")
        ELSE [polled EXCEPT !.slept = r.slept + sleep_seconds, !.attempt = r.attempt + 1]

\* the slip of going on with the text in hand when the job is answered failed
AfterPoll_IgnoreFailed(r, status) ==
    LET polled == [r EXCEPT !.status = status, !.polls = r.polls + 1,
                            !.calls = Called(r, "get_document_text_detection", r.key, "ok")]
    IN  IF Terminal(status)
        THEN [polled EXCEPT !.pc = "collect", !.response = 1]
        ELSE [polled EXCEPT !.slept = r.slept + sleep_seconds, !.attempt = r.attempt + 1]

\* the wait after a poll has answered status (lines 216-228)
AfterPoll(r, status) ==
    LET polled == [r EXCEPT !.status = status, !.polls = r.polls + 1,
                            !.calls = Called(r, "get_document_text_detection", r.key, "ok")]
    IN  IF status = "SUCCEEDED"
        THEN IF polled.attempt >= max_attempts
             THEN Raise(polled, "Textract job timeout")
             ELSE [polled EXCEPT !.pc = "collect", !.response = 1]
        ELSE IF status = "FAILED"
        THEN Raise(polled, "Textract job failed")
        ELSE [polled EXCEPT !.slept = r.slept + sleep_seconds, !.attempt = r.attempt + 1]

\* lines 214-225: one turn of the loop, with the status Textract answers
Poll(p) ==
    LET r == run[p] IN
    /\ r.pc = "poll"
    /\ r.attempt < max_attempts
    /\ \E status \in JobStatuses : run' = [run EXCEPT ![p] = AfterPoll(r, status)]
    /\ UNCHANGED <<table, parsed, uuids, clock, dash>>
    /\ UNCHANGED textVars

\* lines 214, 227-228: the loop ends with the attempts used up
ExitWait(p) ==
    LET r == run[p] IN
    /\ r.pc = "poll"
    /\ r.attempt >= max_attempts
    /\ run' = [run EXCEPT ![p] = Raise(r, "Textract job timeout")]
    /\ UNCHANGED <<table, parsed, uuids, clock, dash>>
    /\ UNCHANGED textVars

\* lines 230-258: the blocks of the response in hand; then the next page of
\* results if there is one, else the text and the page count
Collect(p) ==
    LET r == run[p]
        responses == Uploads[r.key].responses
        blocks == responses[r.response]
        text_blocks == r.text_blocks \o LineTexts(blocks)
        pages == r.page_count + PageBlocks(blocks)
    IN
    /\ r.pc = "collect"
    /\ run' = [run EXCEPT ![p] =
                   IF r.response < Len(responses)
                   THEN [r EXCEPT !.response = r.response + 1, !.text_blocks = text_blocks,
                                  !.page_count = pages, !.attempt = 0, !.polls = 0, !.slept = 0,
                                  !.calls = Called(r, "get_document_text_detection", r.key, "ok")]
                   ELSE [r EXCEPT !.pc = "head", !.response = 0, !.text_blocks = <<>>,
                                  !.extracted_text = JoinLines(text_blocks),
                                  !.page_count = pages, !.attempt = 0, !.polls = 0, !.slept = 0]]
    /\ UNCHANGED <<table, parsed, uuids, clock, dash>>
    /\ UNCHANGED textVars

\* lines 129, 273-274: the size of the uploaded object
HeadObject(p) ==
    LET r == run[p] IN
    /\ r.pc = "head"
    /\ \E outcome \in Outcomes :
           LET called == [r EXCEPT !.calls = Called(r, "head_object", r.key, outcome)]
           IN  run' = [run EXCEPT ![p] =
                          IF outcome = "ok"
                          THEN [called EXCEPT !.pc = "get", !.file_size = Uploads[r.key].ContentLength]
                          ELSE Raise(called, "head_object failed")]
    /\ UNCHANGED <<table, parsed, uuids, clock, dash>>
    /\ UNCHANGED textVars

\* the record process_document builds (lines 135-168) from the dict
\* parse_metadata returned, a fresh identifier and a reading of the clock
CompleteMetadata(r, parsed_metadata, doc_id, now, checksum) ==
    [doc_id |-> doc_id,
     source_bucket |-> bucket,
     source_key |-> r.key,
     processed_at |-> now,
     org_id |-> parsed_metadata.org_id,
     version |-> DictGet(parsed_metadata, "version", "1.0"),
     effective_date |-> DictGet(parsed_metadata, "effective_date", None),
     author |-> DictGet(parsed_metadata, "author", None),
     pages |-> r.page_count,
     file_size |-> r.file_size,
     mime_type |-> "application/pdf",
     checksum_sha256 |-> checksum,
     ocr_coverage_pct |-> calculate_ocr_coverage(r.extracted_text, r.page_count),
     doctype |-> parsed_metadata.doctype,
     roles_involved |-> parsed_metadata.roles_involved,
     hazard_types |-> parsed_metadata.hazard_types,
     facility |-> DictGet(parsed_metadata, "facility", None),
     jurisdiction |-> DictGet(parsed_metadata, "jurisdiction", None),
     classification |-> "internal",
     pii_present |-> detect_pii(r.extracted_text),
     text_preview |-> IF r.extracted_text # ""
                      THEN SubSeq(r.extracted_text, 1, Min(500, Len(r.extracted_text)))
                      ELSE ""]

\* the slip of an identifier that is not new with each call
uuid4_Fixed(n) == "uuid-" \o ToString(0)

\* str(uuid.uuid4()): the n-th identifier handed out; no two are equal
uuid4(n) == "uuid-" \o ToString(n)

\* datetime.utcnow().isoformat(): the n-th reading of the clock; time moves on
\* between two readings
utcnow(n) == "T" \o ToString(n)

\* lines 277-283, 132-168: the content of the uploaded object and its checksum,
\* then the record
GetObject(p) ==
    LET r == run[p] IN
    /\ r.pc = "get"
    /\ \/ /\ \E parsed_metadata \in parse_metadata(r.extracted_text, r.key) :
                 run' = [run EXCEPT ![p] =
                            [r EXCEPT !.pc = "put_item",
                                      !.checksum = Uploads[r.key].sha256,
                                      !.doc_id = uuid4(uuids + 1),
                                      !.complete_metadata =
                                          CompleteMetadata(r, parsed_metadata, uuid4(uuids + 1),
                                                           utcnow(clock + 1), Uploads[r.key].sha256),
                                      !.calls = Called(r, "get_object", r.key, "ok")]]
          /\ uuids' = uuids + 1
          /\ clock' = clock + 1
       \/ /\ run' = [run EXCEPT ![p] =
                          Raise([r EXCEPT !.calls = Called(r, "get_object", r.key, "error")],
                                "get_object failed")]
          /\ UNCHANGED <<uuids, clock>>
    /\ UNCHANGED <<table, parsed, dash>>
    /\ UNCHANGED textVars

\* the item store_metadata_in_dynamodb writes (lines 487-495): empty lists for
\* missing lists; the coverage keeps its two decimals as a Decimal
Item(complete_metadata) ==
    [complete_metadata EXCEPT
        !.roles_involved = IF @ = <<>> THEN <<>> ELSE @,
        !.hazard_types = IF @ = <<>> THEN <<>> ELSE @]

\* table.put_item: the item replaces the one with its doc_id, if any
put_item(items, item) ==
    {i \in items : i.doc_id # item.doc_id} \cup {item}

\* s3_client.put_object: the object replaces the one at its key, if any
put_object(objects, object) ==
    {o \in objects : o.Key # object.Key} \cup {object}

\* the slip of keeping the record in a variable of the module, which the
\* invocations share: the record stored is that of any invocation that has one
PutItem_SharedRecord(p) ==
    LET r == run[p] IN
    /\ r.pc = "put_item"
    /\ \E q \in Procs :
           /\ run[q].pc \in {"put_item", "put_object"}
           /\ table' = put_item(table, Item(run[q].complete_metadata))
           /\ run' = [run EXCEPT ![p] =
                          [r EXCEPT !.pc = "put_object",
                                    !.calls = Called(r, "put_item", run[q].doc_id, "ok")]]
    /\ UNCHANGED <<parsed, uuids, clock, dash>>
    /\ UNCHANGED textVars

\* the slip of passing over a failed put_item
PutItem_Swallow(p) ==
    LET r == run[p] IN
    /\ r.pc = "put_item"
    /\ \/ /\ table' = put_item(table, Item(r.complete_metadata))
          /\ run' = [run EXCEPT ![p] =
                         [r EXCEPT !.pc = "put_object",
                                   !.calls = Called(r, "put_item", r.doc_id, "ok")]]
       \/ /\ run' = [run EXCEPT ![p] =
                          [r EXCEPT !.pc = "put_object",
                                    !.calls = Called(r, "put_item", r.doc_id, "error")]]
          /\ UNCHANGED table
    /\ UNCHANGED <<parsed, uuids, clock, dash>>
    /\ UNCHANGED textVars

\* lines 173, 482-497
PutItem(p) ==
    LET r == run[p] IN
    /\ r.pc = "put_item"
    /\ \/ /\ table' = put_item(table, Item(r.complete_metadata))
          /\ run' = [run EXCEPT ![p] =
                         [r EXCEPT !.pc = "put_object",
                                   !.calls = Called(r, "put_item", r.doc_id, "ok")]]
       \/ /\ run' = [run EXCEPT ![p] =
                          Raise([r EXCEPT !.calls = Called(r, "put_item", r.doc_id, "error")],
                                "put_item failed")]
          /\ UNCHANGED table
    /\ UNCHANGED <<parsed, uuids, clock, dash>>
    /\ UNCHANGED textVars

\* the slip of passing over a failed put_object
PutObject_Swallow(p) ==
    LET r == run[p]
        object_key == parsed_key(r.doc_id, r.key)
    IN
    /\ r.pc = "put_object"
    /\ \/ /\ parsed' = put_object(parsed, [Key |-> object_key, Body |-> r.extracted_text])
          /\ run' = [run EXCEPT ![p] =
                         [IdleRun EXCEPT !.pc = "records", !.event = r.event, !.idx = r.idx + 1,
                                         !.calls = Called(r, "put_object", object_key, "ok")]]
       \/ /\ run' = [run EXCEPT ![p] =
                          [IdleRun EXCEPT !.pc = "records", !.event = r.event, !.idx = r.idx + 1,
                                          !.calls = Called(r, "put_object", object_key, "error")]]
          /\ UNCHANGED parsed
    /\ UNCHANGED <<table, uuids, clock, dash>>
    /\ UNCHANGED textVars

\* lines 177, 500-511; then the next record (line 84)
PutObject(p) ==
    LET r == run[p]
        object_key == parsed_key(r.doc_id, r.key)
    IN
    /\ r.pc = "put_object"
    /\ \/ /\ parsed' = put_object(parsed, [Key |-> object_key, Body |-> r.extracted_text])
          /\ run' = [run EXCEPT ![p] =
                         [IdleRun EXCEPT !.pc = "records", !.event = r.event, !.idx = r.idx + 1,
                                         !.calls = Called(r, "put_object", object_key, "ok")]]
       \/ /\ run' = [run EXCEPT ![p] =
                          Raise([r EXCEPT !.calls = Called(r, "put_object", object_key, "error")],
                                "put_object failed")]
          /\ UNCHANGED parsed
    /\ UNCHANGED <<table, uuids, clock, dash>>
    /\ UNCHANGED textVars

(***************************************************************************)
(* The OCR wait of one invocation on one uploaded PDF.                     *)
(***************************************************************************)
NextPoll ==
    \/ \E k \in PdfKeys : Invoke(1, <<k>>)
    \/ StartDetection(1)
    \/ Poll(1)
    \/ ExitWait(1)

SpecPoll == InitPipeline /\ [][NextPoll]_vars

\* the invocation runs on: a step that can be taken is taken
SpecPollFair == SpecPoll /\ WF_vars(NextPoll)

(***************************************************************************)
(* C12: the OCR wait.                                                      *)
(***************************************************************************)
\* in the wait every poll so far was answered by a status that is neither
\* succeeded nor failed and was followed by one sleep; the wait is left on
\* success with at most 60 polls made
WaitCounts ==
    LET r == run[1] IN
    /\ r.pc = "poll" =>
           /\ r.polls = r.attempt
           /\ r.polls <= max_attempts
           /\ r.slept = sleep_seconds * r.polls
           /\ ~Terminal(r.status)
    /\ (r.pc = "collect" /\ r.polls > 0) =>
           /\ r.status = "SUCCEEDED"
           /\ r.polls <= max_attempts
           /\ r.slept = sleep_seconds * (r.polls - 1)

\* a step of the wait, from the locals a to the locals b
WaitStep(a, b) ==
    /\ b.pc = "poll" =>
           /\ ~Terminal(b.status)
           /\ b.polls = a.polls + 1
           /\ b.slept = a.slept + sleep_seconds
    /\ b.status = "FAILED" <=> (b.statusCode = 500 /\ b.error = "Textract job failed")
    /\ b.status = "FAILED" => a.polls < max_attempts
    /\ b.status = "SUCCEEDED" <=> b.pc = "collect"
    /\ b.status = "SUCCEEDED" => (b.polls = a.polls + 1 /\ b.slept = a.slept)
    /\ (b.statusCode = 500 /\ b.error = "Textract job timeout") <=>
           (a.polls = max_attempts /\ ~Terminal(b.status))
    /\ b.pc \in {"poll", "collect", "returned"}

WaitEnded ==
    \/ run[1].pc = "collect" /\ run[1].status = "SUCCEEDED"
    \/ run[1].pc = "returned" /\ run[1].error \in {"Textract job failed", "Textract job timeout"}

\* C12: the wait makes at most 60 polls, sleeps 5 units once after each poll
\* that is answered neither succeeded nor failed, fails at once on a failed
\* answer, succeeds on a succeeded answer to any of the 60 polls, times out
\* exactly when 60 polls were answered neither succeeded nor failed, and
\* always ends succeeded, failed or timed out.
C12_BoundedWait ==
    /\ []WaitCounts
    /\ [][(run[1].pc = "poll" /\ run'[1] # run[1]) => WaitStep(run[1], run'[1])]_vars
    /\ (run[1].pc = "poll") ~> WaitEnded

\* the 60th poll is answered succeeded, after 59 sleeps
C12_Witness ==
    /\ run[1].pc = "collect"
    /\ run[1].status = "SUCCEEDED"
    /\ run[1].polls = max_attempts
    /\ run[1].slept = sleep_seconds * (max_attempts - 1)

(***************************************************************************)
(* One invocation on an event, then the same event delivered again         *)
(* (the documents are uploaded again).                                     *)
(***************************************************************************)
\* a step of invocation p inside lambda_handler
Step(p) ==
    \/ SkipRecord(p)
    \/ ReturnOk(p)
    \/ StartDetection(p)
    \/ Poll(p)
    \/ ExitWait(p)
    \/ Collect(p)
    \/ HeadObject(p)
    \/ GetObject(p)
    \/ PutItem(p)
    \/ PutObject(p)

\* the event of the first invocation is delivered again after it returned
Redeliver ==
    /\ run[1].pc = "returned"
    /\ Invoke(2, run[1].event)

NextHandler ==
    \/ \E event \in Events : Invoke(1, event)
    \/ Redeliver
    \/ \E p \in Procs : Step(p)

SpecHandler == InitPipeline /\ [][NextHandler]_vars

(***************************************************************************)
(* C13: a failed or timed-out OCR job writes nothing.                      *)
(***************************************************************************)
OcrFailures == {"Textract job failed", "Textract job timeout"}

\* the targets of the calls of r to operation, and of those that returned
Targets(r, operation) == {c[2] : c \in {d \in r.calls : d[1] = operation}}
Done(r, operation) == {c[2] : c \in {d \in r.calls : d[1] = operation /\ d[3] = "ok"}}

\* the PDF records of the event of r before record n
PdfBefore(r, n) == {j \in 1..(n - 1) : j <= Len(r.event) /\ IsPdf(r.event[j])}

\* invocation p has written nothing for the record it stopped at: its writes are
\* those of the PDF records before it, and no stored record of that key is its own
NothingWrittenForRecord(p) ==
    LET r == run[p] IN
    /\ Cardinality(Targets(r, "put_item")) = Cardinality(PdfBefore(r, r.idx))
    /\ Cardinality(Targets(r, "put_object")) = Cardinality(PdfBefore(r, r.idx))
    /\ \A item \in table :
           item.source_key = r.key => item.doc_id \notin Targets(r, "put_item")

\* C13: when the OCR job of a document is answered failed, or the polls run
\* out, the invocation stops with a failure at that step, the step and the wait
\* before it leave the table and the parsed bucket as they were, and the
\* invocation has issued no write for that document.
C13_OcrFailureWritesNothing ==
    /\ [][\A p \in Procs :
             (run[p].pc = "poll" /\ run'[p] # run[p]) =>
                 /\ table' = table
                 /\ parsed' = parsed
                 /\ (run'[p].status = "FAILED" \/ run[p].attempt >= max_attempts) =>
                        /\ run'[p].pc = "returned"
                        /\ run'[p].statusCode = 500
                        /\ run'[p].error \in OcrFailures]_vars
    /\ [](\A p \in Procs :
             (run[p].pc = "returned" /\ run[p].error \in OcrFailures) =>
                 NothingWrittenForRecord(p))

\* the job of the second record is answered failed after the first record was
\* stored: the table holds the first document's record alone
C13_Witness ==
    /\ run[1].pc = "returned"
    /\ run[1].error = "Textract job failed"
    /\ run[1].idx = 2
    /\ Cardinality(table) = 1
    /\ Cardinality(parsed) = 1
    /\ \A item \in table : item.source_key # run[1].key

(***************************************************************************)
(* C14: storage failures and the status the handler returns.               *)
(***************************************************************************)
StorageOperations == {"head_object", "get_object", "put_item", "put_object"}

\* a call of r to S3 or DynamoDB raised
StorageFailure(r) ==
    \E c \in r.calls : c[1] \in StorageOperations /\ c[3] = "error"

\* both writes of r for the record of key k returned, and what they wrote is stored
BothWritesDone(r, k) ==
    \E item \in table :
        /\ item.source_key = k
        /\ item.doc_id \in Done(r, "put_item")
        /\ parsed_key(item.doc_id, k) \in Done(r, "put_object")
        /\ \E object \in parsed : object.Key = parsed_key(item.doc_id, k)

\* C14: an invocation in which a read or a write of S3 or DynamoDB failed has
\* returned 500 on that failure; an invocation returns 200 only when, for every
\* PDF record of its event, the record was stored and the text was saved.
C14_StorageFailureIs500 ==
    \A p \in Procs :
        LET r == run[p] IN
        /\ StorageFailure(r) => (r.pc = "returned" /\ r.statusCode = 500)
        /\ r.pc = "returned" => r.statusCode \in {200, 500}
        /\ (r.pc = "returned" /\ r.statusCode = 200) =>
               /\ ~StorageFailure(r)
               /\ \A n \in 1..Len(r.event) :
                      IsPdf(r.event[n]) => BothWritesDone(r, r.event[n])

\* the first delivery stopped at a failed put_object and returned 500; the
\* second delivery of the two PDFs returned 200
C14_Witness ==
    /\ run[1].pc = "returned"
    /\ run[1].statusCode = 500
    /\ run[1].error = "put_object failed"
    /\ run[2].pc = "returned"
    /\ run[2].statusCode = 200
    /\ \A n \in 1..Len(run[2].event) : IsPdf(run[2].event[n])
    /\ Len(run[2].event) = 2

(***************************************************************************)
(* C15: the records that are not PDFs.                                     *)
(***************************************************************************)
\* the path k ends in ".pdf", in any letter case
EndsInPdfAnyCase(k) ==
    /\ Len(k) >= 4
    /\ \A i \in 1..4 : LowerChar(At(k, Len(k) - 4 + i)) = At(".pdf", i)

\* nothing was called, stored or saved by r for the path k
Untouched(r, k) ==
    /\ \A c \in r.calls : c[2] # k
    /\ \A item \in table : item.source_key # k

\* the handler takes up the record at idx
TakesUp(a, b) == a.pc = "records" /\ a.idx <= Len(a.event) /\ b # a

\* C15: the handler passes over a record whose path does not end in ".pdf" in
\* any letter case, with no call for it and the table and the parsed bucket as
\* they were, and goes to the next record; it starts process_document on a
\* record whose path ends in ".pdf" in any letter case, and the records of that
\* kind it has passed were stored and saved.
C15_OnlyPdfProcessed ==
    /\ [][\A p \in Procs :
             TakesUp(run[p], run'[p]) =>
                 IF EndsInPdfAnyCase(run[p].event[run[p].idx])
                 THEN /\ run'[p].pc = "poll"
                      /\ run'[p].key = run[p].event[run[p].idx]
                      /\ run'[p].idx = run[p].idx
                      /\ run'[p].key \in Targets(run'[p], "start_document_text_detection")
                 ELSE /\ run'[p] = [run[p] EXCEPT !.idx = run[p].idx + 1]
                      /\ table' = table
                      /\ parsed' = parsed]_vars
    /\ [](\A p \in Procs :
             \A n \in 1..Len(run[p].event) :
                 IF EndsInPdfAnyCase(run[p].event[n])
                 THEN n < run[p].idx => BothWritesDone(run[p], run[p].event[n])
                 ELSE Untouched(run[p], run[p].event[n]))

\* the event (notes.txt, REPORT.PDF) was handled: nothing for the first record,
\* the second stored
C15_Witness ==
    /\ run[1].pc = "returned"
    /\ run[1].statusCode = 200
    /\ run[1].event = <<"org2/notes.txt", "org1/REPORT.PDF">>
    /\ \E item \in table : item.source_key = "org1/REPORT.PDF"
    /\ Untouched(run[1], "org2/notes.txt")

(***************************************************************************)
(* C16: the key of the parsed text.                                        *)
(***************************************************************************)
\* the file name with its 4-character PDF extension replaced by ".txt"
WithTextExtension(filename) == SubSeq(filename, 1, Len(filename) - 4) \o ".txt"

\* C16: the text of every stored document is saved under its document_id, a
\* '/', and the file name of its source path with the PDF extension (in any
\* letter case) replaced by the text extension.
C16_TextKeyHasTextExtension ==
    \A object \in parsed :
        \E item \in table :
            /\ EndsInPdfAnyCase(item.source_key)
            /\ object.Key = item.doc_id \o "/" \o WithTextExtension(LastSegment(item.source_key))

(***************************************************************************)
(* C18: fields whose extractor does not match.                             *)
(***************************************************************************)
\* no pattern of the list matches anywhere in t
NoPattern(t, patterns, ignorecase) ==
    \A n \in 1..Len(patterns) : ~Search(t, patterns[n], ignorecase).ok

\* the failures the handler reports when a call or the OCR job failed
CallFailures ==
    OcrFailures \cup {"head_object failed", "get_object failed", "put_item failed", "put_object failed"}

\* the records just stored: those of the invocations that have put_item behind
\* them and put_object ahead
JustStored ==
    {item \in table : \E p \in Procs : run[p].pc = "put_object" /\ run[p].doc_id = item.doc_id}

\* C18: a record, when it is stored, has no version, date, author, facility or jurisdiction
\* (and no default in their place) when no pattern of that field matches its
\* text, no roles and no hazards when no keyword of theirs occurs, and document
\* type "unknown" when no document-type keyword occurs; no invocation fails for
\* another reason than a failed call or OCR job, and one that returns 200 has
\* stored a record for every PDF of its event.
C18_UnmatchedFieldsAbsent ==
    /\ \A item \in JustStored :
           LET t == item.text_preview IN
           /\ NoPattern(t, VERSION_PATTERNS, TRUE) => item.version = None
           /\ NoPattern(t, DATE_PATTERNS, TRUE) => item.effective_date = None
           /\ NoPattern(t, AUTHOR_PATTERNS, FALSE) => item.author = None
           /\ NoPattern(t, FACILITY_PATTERNS, TRUE) => item.facility = None
           /\ (\A n \in 1..Len(US_STATES) : ~WholeToken(t, US_STATES[n]))
                  => item.jurisdiction = None
           /\ Present(Lower(t), ROLE_KEYWORDS) = {} => item.roles_involved = <<>>
           /\ Present(Lower(t), HAZARD_KEYWORDS) = {} => item.hazard_types = <<>>
           /\ (\A i \in DoctypeIndexes : PhraseCount(Lower(t), i) = 0)
                  => item.doctype = "unknown"
    /\ \A p \in Procs :
           /\ (run[p].pc = "returned" /\ run[p].statusCode = 500) => run[p].error \in CallFailures
           /\ (run[p].pc = "returned" /\ run[p].statusCode = 200) =>
                  \A n \in 1..Len(run[p].event) :
                      IsPdf(run[p].event[n]) =>
                          \E item \in table : item.source_key = run[p].event[n]

\* the record of "the lobby", in which nothing matches, is stored
C18_Witness ==
    \E item \in JustStored :
        /\ item.text_preview = "the lobby"
        /\ item.version = None
        /\ item.effective_date = None
        /\ item.author = None
        /\ item.facility = None
        /\ item.jurisdiction = None
        /\ item.roles_involved = <<>>
        /\ item.hazard_types = <<>>
        /\ item.doctype = "unknown"

(***************************************************************************)
(* C19: records are inserted, never changed.                               *)
(***************************************************************************)
\* a step keeps what is stored and adds at most one record under a new
\* document_id and at most one object under a new key
OnlyInserts ==
    /\ table \subseteq table'
    /\ parsed \subseteq parsed'
    /\ table' # table =>
           \E item \in table' :
               /\ table' = table \cup {item}
               /\ \A old \in table : old.doc_id # item.doc_id
    /\ parsed' # parsed =>
           \E object \in parsed' :
               /\ parsed' = parsed \cup {object}
               /\ \A old \in parsed : old.Key # object.Key

\* every invocation that returned 200 has its own record of each PDF of its event
OwnRecords ==
    \A p \in Procs :
        (run[p].pc = "returned" /\ run[p].statusCode = 200) =>
            \A n \in 1..Len(run[p].event) :
                IsPdf(run[p].event[n]) => BothWritesDone(run[p], run[p].event[n])

\* C19: no step changes or removes a stored record or text object; a document
\* that is processed again gets a new record under a new document_id beside
\* the old one; no two stored records share a document_id.
C19_RecordsNeverMutated ==
    /\ [][OnlyInserts]_vars
    /\ []OwnRecords
    /\ [](\A p, q \in Procs : p # q => Done(run[p], "put_item") \cap Done(run[q], "put_item") = {})
    /\ [](\A a, b \in table : a.doc_id = b.doc_id => a = b)

\* the same PDF was processed twice: two records of it under two identifiers
C19_Witness ==
    /\ run[1].statusCode = 200
    /\ run[2].statusCode = 200
    /\ \E a, b \in table :
           /\ a.doc_id # b.doc_id
           /\ a.source_key = b.source_key
           /\ a.doc_id \in Done(run[1], "put_item")
           /\ b.doc_id \in Done(run[2], "put_item")

(***************************************************************************)
(* C11: two builds of the record of one document.                          *)
(***************************************************************************)
\* the fields of a record but document_id and processed_at
BuiltFields(item) ==
    [name \in DOMAIN item \ {"doc_id", "processed_at"} |-> item[name]]

\* C11: two records built from the same text, page count, file metadata and
\* source path agree on every field but document_id and processed_at, the
\* facility string with its order of entries included, and their document_ids
\* differ.
C11_RepeatedBuildsAgree ==
    \A a, b \in table :
        (a # b /\ a.source_key = b.source_key) =>
            /\ BuiltFields(a) = BuiltFields(b)
            /\ a.doc_id # b.doc_id

(***************************************************************************)
(* Two invocations at the same time, each on an event of one record, on    *)
(* different uploaded objects; their steps interleave.                     *)
(***************************************************************************)
\* the keys an event names
EventKeys(event) == {event[n] : n \in 1..Len(event)}

\* S3 delivers to invocation p an event on objects no other invocation has
Deliver(p, event) ==
    /\ \A q \in Procs \ {p} : EventKeys(run[q].event) \cap EventKeys(event) = {}
    /\ Invoke(p, event)

NextConcurrent ==
    \/ \E p \in Procs : \E k \in Keys : Deliver(p, <<k>>)
    \/ \E p \in Procs : Step(p)

SpecConcurrent == InitPipeline /\ [][NextConcurrent]_vars

(***************************************************************************)
(* C20: no interference between concurrent runs.                           *)
(***************************************************************************)
\* all blocks Textract holds for the object at k
RECURSIVE AllBlocks(_, _)
AllBlocks(responses, n) ==
    IF n > Len(responses) THEN <<>> ELSE responses[n] \o AllBlocks(responses, n + 1)

\* what a run on k alone works from
OwnInputs(k) ==
    [IdleRun EXCEPT !.key = k,
                    !.extracted_text = JoinLines(LineTexts(AllBlocks(Uploads[k].responses, 1))),
                    !.page_count = PageBlocks(AllBlocks(Uploads[k].responses, 1)),
                    !.file_size = Uploads[k].ContentLength]

\* the records, up to document_id and processed_at, that a run on k alone stores
AloneRecords(k) ==
    {BuiltFields(CompleteMetadata(OwnInputs(k), parsed_metadata, "", "", Uploads[k].sha256)) :
        parsed_metadata \in parse_metadata(OwnInputs(k).extracted_text, k)}

\* the record invocation p has just stored, and the object it saves next
StoredFromOwnInputs(p) ==
    LET r == run[p] IN
    r.pc = "put_object" =>
        /\ r.extracted_text = OwnInputs(r.key).extracted_text
        /\ \E item \in table :
               /\ item.doc_id = r.doc_id
               /\ item.source_key = r.key
               /\ BuiltFields(item) \in AloneRecords(r.key)

\* the stored records and objects are those of the PDFs the invocations have
\* passed, one of each per PDF, as when one invocation runs after the other
AsOneAfterTheOther ==
    LET passed == {p \in Procs : run[p].idx > 1 /\ IsPdf(run[p].event[1])}
    IN  /\ \A p \in passed : BothWritesDone(run[p], run[p].event[1])
        /\ Cardinality(parsed) = Cardinality(passed)
        /\ \A object \in parsed :
               \E item \in table :
                   /\ object.Key = parsed_key(item.doc_id, item.source_key)
                   /\ object.Body = OwnInputs(item.source_key).extracted_text
        /\ \A a, b \in table : a.source_key = b.source_key => a = b

\* C20: under every interleaving of two runs on different documents, each run
\* stores the record and the text computed from its own text, page count, file
\* metadata and path, and what is stored is, up to document_id and
\* processed_at, what the two runs store one after the other.
C20_NoInterference ==
    /\ \A p \in Procs : StoredFromOwnInputs(p)
    /\ AsOneAfterTheOther

\* both runs are between their two writes at the same time
C20_Witness ==
    /\ run[1].pc = "put_object"
    /\ run[2].pc = "put_object"
    /\ run[1].key # run[2].key
    /\ Cardinality(table) = 2

(***************************************************************************)
(* The dashboard's read functions (dashboard.py, lines 68-121), on a       *)
(* table and a parsed bucket the pipeline has filled.                      *)
(***************************************************************************)
\* the record the pipeline stores for the upload at k as its n-th build
SampleItem(k, n) ==
    Item(CompleteMetadata(OwnInputs(k),
                          CHOOSE parsed_metadata \in parse_metadata(OwnInputs(k).extracted_text, k) : TRUE,
                          uuid4(n), utcnow(n), Uploads[k].sha256))

SampleItems ==
    {SampleItem("org1/plan.pdf", 1), SampleItem("org1/REPORT.PDF", 2), SampleItem("org1/plan.pdf", 3)}

\* the object the pipeline saves for a stored record
ObjectOf(item) ==
    [Key |-> parsed_key(item.doc_id, item.source_key),
     Body |-> OwnInputs(item.source_key).extracted_text]

InitDashboard ==
    /\ text = ""
    /\ page_count = 0
    /\ key = ""
    /\ pc = "dashboard"
    /\ metadata = EmptyMetadata
    /\ run = [p \in Procs |-> IdleRun]
    /\ table \in SUBSET SampleItems
    /\ parsed \in SUBSET {ObjectOf(item) : item \in table}
    /\ uuids = Cardinality(SampleItems)
    /\ clock = Cardinality(SampleItems)
    /\ dash = IdleDash

\* the slip of giving back the pages read before the failure
Degrade_KeepPartial(d, message) ==
    [IdleDash EXCEPT !.pc = "returned", !.fn = d.fn, !.org_id = d.org_id, !.doctype = d.doctype,
                     !.doc_id = d.doc_id, !.filename = d.filename,
                     !.pages_read = d.pages_read, !.failed = TRUE,
                     !.message = message, !.items = d.documents, !.text = ""]

\* the except clause of a read function: st.error(message), the empty result
Degrade(d, message) ==
    [IdleDash EXCEPT !.pc = "returned", !.fn = d.fn, !.org_id = d.org_id, !.doctype = d.doctype,
                     !.doc_id = d.doc_id, !.filename = d.filename,
                     !.pages_read = d.pages_read, !.failed = TRUE,
                     !.message = message, !.items = <<>>, !.text = ""]

\* a read function returns its result
Return(d, items, t) ==
    [IdleDash EXCEPT !.pc = "returned", !.fn = d.fn, !.org_id = d.org_id, !.doctype = d.doctype,
                     !.doc_id = d.doc_id, !.filename = d.filename,
                     !.pages_read = d.pages_read, !.items = items, !.text = t]

\* the values the dashboard filters by
OrgIds == {"org1", "org2"}
Doctypes == {"unknown", "sop"}

\* the page calls a read function
CallRead ==
    /\ dash.pc \in {"idle", "returned"}
    /\ \/ dash' = [IdleDash EXCEPT !.pc = "scan", !.fn = "fetch_all_documents", !.unread = table]
       \/ \E org_id \in OrgIds :
              dash' = [IdleDash EXCEPT !.pc = "scan_org", !.fn = "fetch_documents_by_org",
                                       !.org_id = org_id, !.unread = table]
       \/ \E org_id \in OrgIds : \E doctype \in Doctypes :
              dash' = [IdleDash EXCEPT !.pc = "query", !.fn = "fetch_documents_by_org_doctype",
                                       !.org_id = org_id, !.doctype = doctype, !.unread = table]
       \/ \E item \in table :
              dash' = [IdleDash EXCEPT !.pc = "get_object", !.fn = "download_parsed_text",
                                       !.doc_id = item.doc_id,
                                       !.filename = LastSegment(item.source_key)]
    /\ UNCHANGED <<run, table, parsed, uuids, clock>>
    /\ UNCHANGED textVars

\* the pages DynamoDB may answer with: some of the unread items, at least one
\* if any is unread, in some order
Pages(unread) ==
    UNION {Orders(chunk) : chunk \in {c \in SUBSET unread : c # {} \/ unread = {}}}

\* fetch_all_documents (lines 70-79): table.scan, and again while the answer
\* holds a LastEvaluatedKey
ScanPage ==
    /\ dash.pc = "scan"
    /\ \/ \E page \in Pages(dash.unread) :
              LET documents == dash.documents \o page
                  unread == dash.unread \ Range(page)
                  read == [dash EXCEPT !.documents = documents, !.unread = unread,
                                       !.pages_read = dash.pages_read + 1]
              IN  dash' = IF unread # {} THEN read ELSE Return(read, documents, "")
       \/ dash' = Degrade(dash, "Error fetching documents")
    /\ UNCHANGED <<run, table, parsed, uuids, clock>>
    /\ UNCHANGED textVars

\* the items of a page that pass a filter
RECURSIVE Filter(_, _, _)
Filter(page, name, value) ==
    IF page = <<>> THEN <<>>
    ELSE (IF Head(page)[name] = value THEN <<Head(page)>> ELSE <<>>) \o Filter(Tail(page), name, value)

\* fetch_documents_by_org (lines 87-92): one table.scan with a filter
ScanOrg ==
    /\ dash.pc = "scan_org"
    /\ \/ \E page \in Pages(dash.unread) :
              dash' = Return([dash EXCEPT !.pages_read = 1],
                             Filter(page, "org_id", dash.org_id), "")
       \/ dash' = Degrade(dash, "Error fetching documents")
    /\ UNCHANGED <<run, table, parsed, uuids, clock>>
    /\ UNCHANGED textVars

\* fetch_documents_by_org_doctype (lines 100-104): one table.query on the index
QueryOrgDoctype ==
    /\ dash.pc = "query"
    /\ \/ \E page \in Pages({item \in dash.unread :
                                  item.org_id = dash.org_id /\ item.doctype = dash.doctype}) :
              dash' = Return([dash EXCEPT !.pages_read = 1], page, "")
       \/ dash' = Degrade(dash, "Error fetching documents")
    /\ UNCHANGED <<run, table, parsed, uuids, clock>>
    /\ UNCHANGED textVars

\* the slip of replacing the extension in any letter case on the reading side
s3_key_AnyCase(doc_id, filename) ==
    doc_id \o "/" \o
        (IF EndsWith(Lower(filename), ".pdf")
         THEN SubSeq(filename, 1, Len(filename) - 4) \o ".txt"
         ELSE filename)

\* the key download_parsed_text asks for (line 114)
s3_key(doc_id, filename) == doc_id \o "/" \o Replace(filename, ".pdf", ".txt")

\* download_parsed_text (lines 112-118): get_object raises when the bucket has
\* no object at the key, or for another reason
DownloadText ==
    /\ dash.pc = "get_object"
    /\ \/ \E object \in parsed :
              /\ object.Key = s3_key(dash.doc_id, dash.filename)
              /\ dash' = Return([dash EXCEPT !.pages_read = 1], <<>>, object.Body)
       \/ dash' = Degrade(dash, "Error downloading text")
    /\ UNCHANGED <<run, table, parsed, uuids, clock>>
    /\ UNCHANGED textVars

NextDashboard ==
    \/ CallRead
    \/ ScanPage
    \/ ScanOrg
    \/ QueryOrgDoctype
    \/ DownloadText

SpecDashboard == InitDashboard /\ [][NextDashboard]_vars

(***************************************************************************)
(* C17: the read functions degrade gracefully.                             *)
(***************************************************************************)
ReadFunctions ==
    {"fetch_all_documents", "fetch_documents_by_org", "fetch_documents_by_org_doctype",
     "download_parsed_text"}

\* C17: a read function in which a call failed, on the first page or a later
\* one, has returned to the page (no exception leaves it) with an error
\* message reported and the empty list, or the empty string for
\* download_parsed_text, as its result.
C17_ReadsDegradeGracefully ==
    /\ dash.pc = "returned" => dash.fn \in ReadFunctions
    /\ dash.failed =>
           /\ dash.pc = "returned"
           /\ dash.message # ""
           /\ dash.items = <<>>
           /\ dash.text = ""

\* the scan of fetch_all_documents failed after its first page was read
C17_Witness ==
    /\ dash.pc = "returned"
    /\ dash.fn = "fetch_all_documents"
    /\ dash.failed
    /\ dash.pages_read >= 1
    /\ dash.items = <<>>
    /\ dash.message = "Error fetching documents"

(***************************************************************************)
(* C21: the record is written before the text.                             *)
(***************************************************************************)
\* the document_id an object of the parsed bucket is filed under
ObjectDocId(object) == FirstSegment(object.Key)

\* every saved text has its record
TextHasRecord ==
    \A object \in parsed : \E item \in table : item.doc_id = ObjectDocId(object)

\* a failed put_object leaves the record put before it, and no text for it
FailedTextWriteKeepsRecord ==
    \A p \in Procs :
        (run[p].pc = "put_object" /\ run'[p].pc = "returned") =>
            /\ run'[p].statusCode = 500
            /\ table' = table
            /\ parsed' = parsed
            /\ \E item \in table' : item.doc_id = run[p].doc_id
            /\ \A object \in parsed' : ObjectDocId(object) # run[p].doc_id

\* C21: in every reachable state a text object in the parsed bucket has the
\* record of its document_id in the table; a record may be there without its
\* text, for a put_object that fails leaves the record in place.
C21_RecordBeforeText ==
    /\ []TextHasRecord
    /\ [][FailedTextWriteKeepsRecord]_vars

\* the first PDF of the event has its record and its text, the second its
\* record alone: its put_object failed
C21_Witness ==
    /\ run[1].pc = "returned"
    /\ run[1].error = "put_object failed"
    /\ run[1].idx = 2
    /\ Cardinality(table) = 2
    /\ Cardinality(parsed) = 1
    /\ \E item \in table : \A object \in parsed : ObjectDocId(object) # item.doc_id

(***************************************************************************)
(* C22: an event of several records, one of which fails.                   *)
(***************************************************************************)
\* the invocation goes through the records in event order: the record in hand
\* is the one at idx, and idx moves to the next record or stays
InEventOrder(a, b) ==
    /\ a.pc # "idle" => (b.event = a.event /\ b.idx \in {a.idx, a.idx + 1})
    /\ b.pc \notin {"idle", "records", "returned"} => b.key = b.event[b.idx]
    /\ a.pc = "returned" => b = a

\* invocation r stopped at the record at idx: that record failed, no call was
\* made for a record after it, and what was written for the PDFs before it
\* is stored
StoppedAtFirstFailure(r) ==
    /\ r.idx \in 1..Len(r.event)
    /\ IsPdf(r.event[r.idx])
    /\ r.key = r.event[r.idx]
    /\ r.error \in CallFailures
    /\ \A n \in (r.idx + 1)..Len(r.event) : \A c \in r.calls : c[2] # r.event[n]
    /\ Cardinality(Targets(r, "start_document_text_detection"))
           = Cardinality(PdfBefore(r, r.idx + 1))
    /\ \A n \in PdfBefore(r, r.idx) : BothWritesDone(r, r.event[n])

\* C22: lambda_handler takes the records in event order and stops at the first
\* whose processing fails: it has returned 500, no record after that one is
\* processed in the invocation, then or later, and the records and texts
\* written for the records before it stay stored.
C22_StopsAtFirstFailure ==
    /\ [][\A p \in Procs : InEventOrder(run[p], run'[p])]_vars
    /\ [](\A p \in Procs :
             (run[p].pc = "returned" /\ run[p].statusCode # 200) =>
                 (run[p].statusCode = 500 /\ StoppedAtFirstFailure(run[p])))
    /\ [](\A p \in Procs :
             (run[p].pc # "idle" /\ run[p].pc # "returned") => ~StorageFailure(run[p]))

\* the first delivery of two PDFs failed on the first and left the second
\* alone; the second delivery stored the first and failed on the second
C22_Witness ==
    /\ Len(run[1].event) = 2
    /\ \A n \in 1..2 : IsPdf(run[1].event[n])
    /\ run[1].pc = "returned" /\ run[1].statusCode = 500 /\ run[1].idx = 1
    /\ run[2].pc = "returned" /\ run[2].statusCode = 500 /\ run[2].idx = 2
    /\ BothWritesDone(run[2], run[2].event[1])
    /\ \A item \in table : item.source_key # run[2].event[2]

(***************************************************************************)
(* The two writes of one document and the dashboard reading, for source    *)
(* paths of many shapes.                                                   *)
(***************************************************************************)
PathFragments == {"org1/", "scan", ".pdf", ".PDF"}

\* the source paths lambda_handler accepts
PdfPaths == {k \in Concats(PathFragments, MaxFrags) : IsPdf(k)}

\* process_document on the upload at k, with the OCR text "the lobby" of one
\* page in hand and the record built, before its two writes
BeforeWrites(k) ==
    LET r == [IdleRun EXCEPT !.pc = "put_item", !.event = <<k>>, !.idx = 1, !.key = k,
                             !.status = "SUCCEEDED", !.extracted_text = "the lobby",
                             !.page_count = 1, !.file_size = 512,
                             !.checksum = "sha256-scan", !.doc_id = uuid4(1),
                             !.calls = {<<"start_document_text_detection", k, "ok">>,
                                        <<"get_document_text_detection", k, "ok">>,
                                        <<"head_object", k, "ok">>,
                                        <<"get_object", k, "ok">>}]
    IN  [r EXCEPT !.complete_metadata =
            CompleteMetadata(r, CHOOSE parsed_metadata \in parse_metadata("the lobby", k) : TRUE,
                             uuid4(1), utcnow(1), "sha256-scan")]

InitKeys ==
    /\ text = ""
    /\ page_count = 0
    /\ key = ""
    /\ pc = "keys"
    /\ metadata = EmptyMetadata
    /\ \E k \in PdfPaths : run = [p \in Procs |-> IF p = 1 THEN BeforeWrites(k) ELSE IdleRun]
    /\ table = {}
    /\ parsed = {}
    /\ uuids = 1
    /\ clock = 1
    /\ dash = IdleDash

NextKeys ==
    \/ PutItem(1)
    \/ PutObject(1)
    \/ ReturnOk(1)
    \/ NextDashboard

SpecKeys == InitKeys /\ [][NextKeys]_vars

(***************************************************************************)
(* C23: the key written and the key read.                                  *)
(***************************************************************************)
\* C23: when download_parsed_text is called with the doc_id of a stored record
\* and the last segment of its source_key, and the processor has written the
\* text of that record, the key it asks for is the key of that text object;
\* a download that does not fail returns that text.
C23_ReadKeyIsWriteKey ==
    /\ (dash.fn = "download_parsed_text" /\ dash.pc = "get_object") =>
           \A object \in parsed :
               ObjectDocId(object) = dash.doc_id =>
                   object.Key = s3_key(dash.doc_id, dash.filename)
    /\ (dash.fn = "download_parsed_text" /\ dash.pc = "returned" /\ ~dash.failed) =>
           \E object \in parsed :
               /\ ObjectDocId(object) = dash.doc_id
               /\ dash.text = object.Body

\* the text of scan.pdf.PDF, written under scan.txt.PDF, was downloaded
C23_Witness ==
    /\ dash.fn = "download_parsed_text"
    /\ dash.pc = "returned"
    /\ ~dash.failed
    /\ dash.filename = "scan.pdf.PDF"
    /\ dash.text = "the lobby"
    /\ \E object \in parsed : object.Key = dash.doc_id \o "/scan.txt.PDF"

====
